---- MODULE Spec2Model ----
(***************************************************************************)
(* A model of the measurement engine of sinus-ct-ml-pipeline:             *)
(*   calibration   src/src/calibration/hu_calibration.py                   *)
(*   thresholds    src/src/calibration/adaptive_thresholds.py              *)
(*   OMC patency   src/src/sinus/anatomical.py                             *)
(*   Lund-Mackay   src/src/clinical_scores.py                              *)
(*                                                                         *)
(* A volume is its shape <<z, y, x>> (depth, height, width) and, as in     *)
(* numpy, the flat C-order buffer of its voxels: a sequence of HU values   *)
(* in which voxel (i, j, k), 0-based, sits at At(shape, i, j, k).  Volumes *)
(* are float arrays at every call site (sinus_analysis.py:70), so a HU     *)
(* value is an                                                             *)
(* exact rational <<n, d>> in lowest terms with d > 0; d = 0 encodes the   *)
(* non-finite floats: <<0,0>> is NaN, <<1,0>> is +inf, <<-1,0>> is -inf.   *)
(***************************************************************************)
EXTENDS Integers, Naturals, Sequences, FiniteSets, TLC

VARIABLES
    pc,             \* which operation has run: the position in the scenario
    shape,          \* volume.shape: <<z, y, x>>
    volume,         \* the input volume
    metadata,       \* calibrate_volume(volume)[1]
    calibrated,     \* calibrate_volume(volume)[0]
    remetadata,     \* calibrate_volume(calibrated)[1]
    recalibrated,   \* calibrate_volume(calibrated)[0]
    sinus_mask,     \* the optional mask of adaptive_threshold_air_tissue
    thresholds,     \* adaptive_threshold_air_tissue(volume, sinus_mask)
    conservative,   \* the criteria flag of compute_lund_mackay
    lund_mackay,    \* compute_lund_mackay(volume, conservative)
    omc_threshold,  \* the air_threshold of measure_omc_patency_coronal
    omc,            \* measure_omc_patency_coronal(volume, spacing, air_threshold)
    args,           \* the arguments of a function applied on its own
    result,         \* what that function returned
    provider        \* the fields of a ROIProvider

calVars == <<metadata, calibrated, remetadata, recalibrated>>
thrVars == <<sinus_mask, thresholds>>
lmVars == <<conservative, lund_mackay>>
omcVars == <<omc_threshold, omc>>
fnVars == <<args, result>>

vars == <<pc, shape, volume, calVars, thrVars, lmVars, omcVars, fnVars, provider>>

\* A variable of an operation that has not run.
NotRun == [notrun |-> TRUE]

\* Python's None.
None == [none |-> TRUE]

\* The variables of a component that takes no part in a scenario.
CalIdle ==
    /\ metadata = NotRun
    /\ calibrated = NotRun
    /\ remetadata = NotRun
    /\ recalibrated = NotRun

ThrIdle == sinus_mask = None /\ thresholds = NotRun

LmIdle == conservative = FALSE /\ lund_mackay = NotRun

OmcIdle == omc_threshold = NotRun /\ omc = NotRun

FnIdle == args = NotRun /\ result = NotRun

ProviderIdle == provider = NotRun

(***************************************************************************)
(* Exact arithmetic on HU values.                                          *)
(***************************************************************************)
Abs(n) == IF n < 0 THEN -n ELSE n

Sign(n) == IF n < 0 THEN -1 ELSE IF n > 0 THEN 1 ELSE 0

RECURSIVE GCD(_, _)
GCD(a, b) == IF b = 0 THEN a ELSE GCD(b, a % b)

LCM(a, b) == (a \div GCD(a, b)) * b

\* n / d in lowest terms, d # 0.
Norm(n, d) ==
    LET g == GCD(Abs(n), Abs(d))
        s == Sign(d)
    IN  <<(s * n) \div g, (s * d) \div g>>

R(n) == <<n, 1>>

NaN == <<0, 0>>

IsNaN(a) == a = NaN

IsFinite(a) == a[2] # 0

RNeg(a) == <<-a[1], a[2]>>

RAbs(a) == <<Abs(a[1]), a[2]>>

RAdd(a, b) ==
    IF IsFinite(a) /\ IsFinite(b)
    THEN LET l == LCM(a[2], b[2])
         IN  Norm(a[1] * (l \div a[2]) + b[1] * (l \div b[2]), l)
    ELSE IF IsNaN(a) \/ IsNaN(b) THEN NaN
    ELSE IF IsFinite(a) THEN b
    ELSE IF IsFinite(b) THEN a
    ELSE IF a = b THEN a ELSE NaN

RSub(a, b) == RAdd(a, RNeg(b))

RMul(a, b) ==
    IF IsFinite(a) /\ IsFinite(b)
    THEN LET g1 == GCD(Abs(a[1]), b[2])
             g2 == GCD(Abs(b[1]), a[2])
         IN  <<(a[1] \div g1) * (b[1] \div g2), (a[2] \div g2) * (b[2] \div g1)>>
    ELSE IF IsNaN(a) \/ IsNaN(b) \/ a[1] = 0 \/ b[1] = 0 THEN NaN
    ELSE <<Sign(a[1]) * Sign(b[1]), 0>>

\* Float division as numpy does it: x / 0 is +-inf, 0 / 0 is NaN, no exception.
RDiv(a, b) ==
    IF IsFinite(a) /\ IsFinite(b)
    THEN IF b[1] = 0 THEN <<Sign(a[1]), 0>>
         ELSE RMul(a, Norm(b[2], b[1]))
    ELSE IF IsNaN(a) \/ IsNaN(b) THEN NaN
    ELSE IF IsFinite(a) THEN R(0)
    ELSE IF IsFinite(b) THEN <<a[1] * (IF b[1] < 0 THEN -1 ELSE 1), 0>>
    ELSE NaN

\* Every comparison with NaN is false.
RLt(a, b) ==
    IF IsNaN(a) \/ IsNaN(b) THEN FALSE
    ELSE IF a[2] = b[2] THEN a[1] < b[1]
    ELSE IF IsFinite(a) /\ IsFinite(b)
    THEN LET l == LCM(a[2], b[2])
         IN  a[1] * (l \div a[2]) < b[1] * (l \div b[2])
    ELSE IF IsFinite(a) THEN b[1] > 0
    ELSE IF IsFinite(b) THEN a[1] < 0
    ELSE a[1] < b[1]

RLe(a, b) == ~IsNaN(a) /\ ~IsNaN(b) /\ ~RLt(b, a)

RGt(a, b) == RLt(b, a)

\* Python's builtin max(a, b): b only when b > a.
PyMax(a, b) == IF RGt(b, a) THEN b ELSE a

\* Python's builtin min(a, b): b only when b < a.
PyMin(a, b) == IF RLt(b, a) THEN b ELSE a

(***************************************************************************)
(* numpy indexing.                                                         *)
(***************************************************************************)
Clamp(i, lo, hi) == IF i < lo THEN lo ELSE IF i > hi THEN hi ELSE i

\* The indices a[start:stop] selects on an axis of length n: a negative bound
\* counts from the end, and both are clamped to 0..n.
PySlice(start, stop, n) ==
    LET s == Clamp(IF start < 0 THEN start + n ELSE start, 0, n)
        e == Clamp(IF stop < 0 THEN stop + n ELSE stop, 0, n)
    IN  s .. (e - 1)

\* The place of voxel (i, j, k) in the buffer of an array of shape shp.
At(shp, i, j, k) == (i * shp[2] + j) * shp[3] + k + 1

\* The voxels of an array of the given shape.
Voxels(shp) == 1 .. shp[1] * shp[2] * shp[3]

\* volume[zs, ys, xs] as the set of voxels it selects.
Box(shp, zs, ys, xs) == {At(shp, i, j, k) : i \in zs, j \in ys, k \in xs}

\* int(n * num / den) for n >= 0: Python's int() truncates.
IntFrac(n, num, den) == (n * num) \div den

(***************************************************************************)
(* Samples and np.median.  A sample array is a function from sample keys   *)
(* to values; np.concatenate of pieces of a volume has the keys <<i, p>>,  *)
(* voxel p of piece i, so that a voxel in two pieces is sampled twice.     *)
(***************************************************************************)
\* np.concatenate([s.ravel() for s in pieces]), pieces a sequence of voxel sets.
Concatenate(pieces, vol) ==
    [s \in UNION {{<<i, p>> : p \in pieces[i]} : i \in DOMAIN pieces} |->
        vol[s[2]]]

\* a[mask]: the samples at the true places of a boolean array.
Select(a, mask) == [s \in {t \in DOMAIN a : mask[t]} |-> a[s]]

\* a.size
Size(a) == Cardinality(DOMAIN a)

\* The k-th smallest sample, k in 1..a.size.
KthSmallest(a, k) ==
    CHOOSE v \in {a[s] : s \in DOMAIN a} :
        /\ Cardinality({s \in DOMAIN a : RLt(a[s], v)}) < k
        /\ Cardinality({s \in DOMAIN a : RLe(a[s], v)}) >= k

\* np.median: the middle sample, or the mean of the two middle ones.
Median(a) ==
    LET n == Size(a)
    IN  IF n % 2 = 1
        THEN KthSmallest(a, (n + 1) \div 2)
        ELSE RDiv(RAdd(KthSmallest(a, n \div 2),
                       KthSmallest(a, n \div 2 + 1)), R(2))

(***************************************************************************)
(* VolumeCalibrator: hu_calibration.py                                     *)
(***************************************************************************)
\* margin = 10, the width of the sampled slabs.
AirMargin == 10

\* A variant that samples the two depth slabs only.
PeripheralSlices_depth_only(shp) ==
    LET ys == 0 .. shp[2] - 1
        xs == 0 .. shp[3] - 1
    IN  << Box(shp, PySlice(0, AirMargin, shp[1]), ys, xs),
           Box(shp, PySlice(-AirMargin, shp[1], shp[1]), ys, xs) >>

\* The four slabs detect_air_anchor concatenates: volume[:margin, :, :],
\* volume[-margin:, :, :], volume[:, :margin, :], volume[:, -margin:, :].
PeripheralSlices(shp) ==
    LET zs == 0 .. shp[1] - 1
        ys == 0 .. shp[2] - 1
        xs == 0 .. shp[3] - 1
    IN  << Box(shp, PySlice(0, AirMargin, shp[1]), ys, xs),
           Box(shp, PySlice(-AirMargin, shp[1], shp[1]), ys, xs),
           Box(shp, zs, PySlice(0, AirMargin, shp[2]), xs),
           Box(shp, zs, PySlice(-AirMargin, shp[2], shp[2]), xs) >>

\* peripheral[peripheral < -800]
IsAirHU(v) == RLt(v, R(-800))

AirCandidates(vol, shp) ==
    LET peripheral == Concatenate(PeripheralSlices(shp), vol)
    IN  Select(peripheral, [s \in DOMAIN peripheral |-> IsAirHU(peripheral[s])])

\* A variant that falls back to the expected value when nothing qualifies.
AnchorRecord_default(cands, expected_hu, tolerance) ==
    LET measured == IF Size(cands) = 0 THEN expected_hu ELSE Median(cands)
        delta == RSub(measured, expected_hu)
    IN  [measured_hu |-> measured, expected_hu |-> expected_hu,
         delta |-> delta, pass |-> RLe(RAbs(delta), tolerance),
         n_samples |-> Size(cands)]

\* An anchor record from its candidates (the tail both detectors share).
AnchorRecord(cands, expected_hu, tolerance) ==
    IF Size(cands) = 0
    THEN [measured_hu |-> NaN, expected_hu |-> expected_hu, delta |-> NaN,
          pass |-> FALSE]
    ELSE LET measured == Median(cands)
             delta == RSub(measured, expected_hu)
         IN  [measured_hu |-> measured, expected_hu |-> expected_hu,
              delta |-> delta, pass |-> RLe(RAbs(delta), tolerance),
              n_samples |-> Size(cands)]

detect_air_anchor(vol, shp, expected_hu, tolerance) ==
    AnchorRecord(AirCandidates(vol, shp), expected_hu, tolerance)

\* The palate box: depth 60-80 %, height and width +-20 % of the centre.
PalateRoi(shp) ==
    LET z_start == IntFrac(shp[1], 6, 10)
        z_end == IntFrac(shp[1], 8, 10)
        y_center == shp[2] \div 2
        x_center == shp[3] \div 2
        y_margin == IntFrac(shp[2], 2, 10)
        x_margin == IntFrac(shp[3], 2, 10)
    IN  Box(shp, PySlice(z_start, z_end, shp[1]),
            PySlice(y_center - y_margin, y_center + y_margin, shp[2]),
            PySlice(x_center - x_margin, x_center + x_margin, shp[3]))

\* palate_roi[palate_roi > 900]
IsBoneHU(v) == RGt(v, R(900))

BoneCandidates(vol, shp) ==
    LET palate_roi == Concatenate(<<PalateRoi(shp)>>, vol)
    IN  Select(palate_roi, [s \in DOMAIN palate_roi |-> IsBoneHU(palate_roi[s])])

detect_bone_anchor(vol, shp, expected_hu, tolerance) ==
    AnchorRecord(BoneCandidates(vol, shp), expected_hu, tolerance)

\* A variant that anchors the intercept at the wrong measured point.
TwoPointFit_wrong_point(air_anchor, bone_anchor) ==
    LET x0 == air_anchor.measured_hu
        x1 == bone_anchor.measured_hu
        y0 == air_anchor.expected_hu
        y1 == bone_anchor.expected_hu
        slope == RDiv(RSub(y1, y0), RSub(x1, x0))
    IN  [slope |-> slope, intercept |-> RSub(y0, RMul(slope, x1))]

\* A variant that subtracts the measured anchors the other way round.
TwoPointFit_reversed(air_anchor, bone_anchor) ==
    LET x0 == air_anchor.measured_hu
        x1 == bone_anchor.measured_hu
        y0 == air_anchor.expected_hu
        y1 == bone_anchor.expected_hu
        slope == RDiv(RSub(y1, y0), RSub(x0, x1))
    IN  [slope |-> slope, intercept |-> RSub(y0, RMul(slope, x0))]

\* The two-point fit of compute_hu_correction (lines 119-124).
TwoPointFit(air_anchor, bone_anchor) ==
    LET x0 == air_anchor.measured_hu
        x1 == bone_anchor.measured_hu
        y0 == air_anchor.expected_hu
        y1 == bone_anchor.expected_hu
        slope == RDiv(RSub(y1, y0), RSub(x1, x0))
    IN  [slope |-> slope, intercept |-> RSub(y0, RMul(slope, x0))]

\* A variant that skips the correction when max_delta equals the threshold.
compute_hu_correction_le(air_anchor, bone_anchor, correction_threshold) ==
    IF ~(air_anchor.pass /\ bone_anchor.pass) THEN None
    ELSE LET max_delta == PyMax(RAbs(air_anchor.delta), RAbs(bone_anchor.delta))
         IN  IF RLe(max_delta, correction_threshold)
             THEN [slope |-> R(1), intercept |-> R(0), apply |-> FALSE,
                   max_delta |-> max_delta]
             ELSE [slope |-> TwoPointFit(air_anchor, bone_anchor).slope,
                   intercept |-> TwoPointFit(air_anchor, bone_anchor).intercept,
                   apply |-> TRUE, max_delta |-> max_delta]

compute_hu_correction(air_anchor, bone_anchor, correction_threshold) ==
    IF ~(air_anchor.pass /\ bone_anchor.pass) THEN None
    ELSE LET max_delta == PyMax(RAbs(air_anchor.delta), RAbs(bone_anchor.delta))
             fit == TwoPointFit(air_anchor, bone_anchor)
         IN  IF RLt(max_delta, correction_threshold)
             THEN [slope |-> R(1), intercept |-> R(0), apply |-> FALSE,
                   max_delta |-> max_delta]
             ELSE [slope |-> fit.slope, intercept |-> fit.intercept,
                   apply |-> TRUE, max_delta |-> max_delta]

\* `not correction or not correction.get('apply', False)`
NotApplied(correction) == correction = None \/ ~correction.apply

\* A variant that scales and forgets the intercept.
apply_hu_correction_no_intercept(vol, correction) ==
    IF correction = None \/ ~correction.apply THEN vol
    ELSE [p \in DOMAIN vol |-> RMul(correction.slope, vol[p])]

\* slope * volume + intercept is a new array; .astype(volume.dtype) keeps a
\* float volume as it is.
apply_hu_correction(vol, correction) ==
    IF NotApplied(correction) THEN vol
    ELSE [p \in DOMAIN vol |->
            RAdd(RMul(correction.slope, vol[p]), correction.intercept)]

\* calibrate_volume without output_json: <<calibrated, metadata>>.
calibrate_volume(vol, shp) ==
    LET air == detect_air_anchor(vol, shp, R(-1000), R(50))
        bone == detect_bone_anchor(vol, shp, R(1200), R(200))
        correction == compute_hu_correction(air, bone, R(50))
        cal == IF correction # None THEN apply_hu_correction(vol, correction)
               ELSE vol
    IN  << cal,
           [air_anchor |-> air, bone_anchor |-> bone, correction |-> correction,
            applied |-> IF correction # None THEN correction.apply ELSE FALSE] >>

(***************************************************************************)
(* Calibration scenario: a raw volume is calibrated, and the result is     *)
(* calibrated again.                                                       *)
(***************************************************************************)
\* The shapes of the raw volumes.  In SmallShape every voxel lies in all four
\* slabs of detect_air_anchor; BigShape has the smallest depth and height
\* that leave voxels outside them.  Both have a non-empty palate box.
SmallShape == <<5, 5, 5>>
BigShape == <<21, 21, 5>>

\* Voxels in the depth-face patch and in the second palate patch.
NFace == 2
NPalate == 2

\* The patches of the raw volumes; every other voxel is soft tissue (0 HU).
\* CornerPatch lies in the first depth slab and the first height slab,
\* FacePatch in the first depth slab, WidthPatch at a width face in the
\* middle of the depth and height axes, the palate patches in the palate box.
CornerPatch(shp) == {At(shp, 0, 0, 0)}
FacePatch(shp) == {At(shp, 0, shp[2] \div 2, k) : k \in 0 .. NFace - 1}
WidthPatch(shp) == {At(shp, shp[1] \div 2, shp[2] \div 2, 0)}
PalatePatch1(shp) ==
    {At(shp, IntFrac(shp[1], 6, 10), (shp[2] \div 2) - 1, (shp[3] \div 2) - 1)}
PalatePatch2(shp) ==
    {At(shp, IntFrac(shp[1], 6, 10), (shp[2] \div 2) - 1 + ((k + 1) \div 2),
        (shp[3] \div 2) - 1 + ((k + 1) % 2)) : k \in 0 .. NPalate - 1}

CornerHU == {-1000, -950, -900, 0}
FaceHU == {-1000, -960, -790, 0}
WidthHU == {-1000, 0}
Palate1HU == {1200, 1250, 1010, 1390, 0}
Palate2HU == {1200, 890, 1500, 0}

RawVolume(shp, a, b, w, c, d) ==
    LET pa == CornerPatch(shp)
        pb == FacePatch(shp)
        pw == WidthPatch(shp)
        pc1 == PalatePatch1(shp)
        pc2 == PalatePatch2(shp)
    IN  [p \in Voxels(shp) |->
            R(IF p \in pa THEN a
              ELSE IF p \in pb THEN b
              ELSE IF p \in pw THEN w
              ELSE IF p \in pc1 THEN c
              ELSE IF p \in pc2 THEN d
              ELSE 0)]

InitCal ==
    /\ pc = "raw"
    /\ \E a \in CornerHU, b \in FaceHU, w \in WidthHU :
          \/ /\ shape = SmallShape
             /\ \E c \in Palate1HU, d \in Palate2HU :
                    volume = RawVolume(SmallShape, a, b, w, c, d)
          \/ /\ shape = BigShape
             /\ volume = RawVolume(BigShape, a, b, w, 1200, 1200)
    /\ CalIdle
    /\ ThrIdle
    /\ LmIdle
    /\ OmcIdle
    /\ FnIdle
    /\ ProviderIdle

Calibrate ==
    /\ pc = "raw"
    /\ LET r == calibrate_volume(volume, shape)
       IN  /\ calibrated' = r[1]
           /\ metadata' = r[2]
    /\ pc' = "calibrated"
    /\ UNCHANGED <<shape, volume, remetadata, recalibrated, thrVars, lmVars, omcVars,
                   fnVars, provider>>

Recalibrate ==
    /\ pc = "calibrated"
    /\ LET r == calibrate_volume(calibrated, shape)
       IN  /\ recalibrated' = r[1]
           /\ remetadata' = r[2]
    /\ pc' = "recalibrated"
    /\ UNCHANGED <<shape, volume, metadata, calibrated, thrVars, lmVars, omcVars,
                   fnVars, provider>>

NextCal == Calibrate \/ Recalibrate

SpecCal == InitCal /\ [][NextCal]_vars

(***************************************************************************)
(* AdaptiveThresholder: adaptive_thresholds.py                             *)
(***************************************************************************)
\* np.histogram(roi, bins=140, range=(-1000, 400))
HistBins == 140
HistLo == -1000
HistHi == 400

\* bin_edges[i], i in 0..HistBins: np.linspace(-1000, 400, 141).
BinEdge(i) == HistLo + (i * (HistHi - HistLo)) \div HistBins

\* A variant that names each bin by its lower edge.
BinCenters_edges == [i \in 0 .. HistBins - 1 |-> R(BinEdge(i))]

\* bin_centers = (bin_edges[:-1] + bin_edges[1:]) / 2
BinCenters ==
    [i \in 0 .. HistBins - 1 |-> RDiv(R(BinEdge(i) + BinEdge(i + 1)), R(2))]

BinCenter(i) == BinCenters[i]

\* The bin np.histogram counts a value in: values outside the range are
\* dropped (bin -1 here), bins are half-open and the last one is closed.
BinOf(v) ==
    IF ~IsFinite(v) \/ RLt(v, R(HistLo)) \/ RGt(v, R(HistHi)) THEN -1
    ELSE IF v = R(HistHi) THEN HistBins - 1
    ELSE ((v[1] - HistLo * v[2]) * HistBins) \div ((HistHi - HistLo) * v[2])

\* hist of np.histogram, a function on 0..HistBins-1.
Histogram(roi) ==
    LET bins == [s \in DOMAIN roi |-> BinOf(roi[s])]
    IN  [i \in 0 .. HistBins - 1 |->
            Cardinality({s \in DOMAIN roi : bins[s] = i})]

\* The smallest element of a non-empty set of integers.
MinOf(S) == CHOOSE i \in S : \A j \in S : i <= j

\* The largest element of a non-empty set of integers.
MaxOf(S) == CHOOSE i \in S : \A j \in S : i >= j

\* np.argmax over the bins in idxs: the first bin with the largest count.
ArgMax(hist, idxs) ==
    LET top == MaxOf({hist[j] : j \in idxs})
    IN  MinOf({i \in idxs : hist[i] = top})

\* np.argmin over the bins in idxs: the first bin with the smallest count.
ArgMin(hist, idxs) ==
    LET low == MinOf({hist[j] : j \in idxs})
    IN  MinOf({i \in idxs : hist[i] = low})

\* volume[sinus_mask > 0], or the central 50 % of the volume.
ThresholdRoi(vol, shp, mask) ==
    IF mask # None
    THEN [p \in {q \in Voxels(shp) : mask[q] > 0} |-> vol[p]]
    ELSE [p \in Box(shp, PySlice(shp[1] \div 4, (3 * shp[1]) \div 4, shp[1]),
                         PySlice(shp[2] \div 4, (3 * shp[2]) \div 4, shp[2]),
                         PySlice(shp[3] \div 4, (3 * shp[3]) \div 4, shp[3]))
            |-> vol[p]]

\* A variant that takes the most populated bin between the peaks.
ThresholdsFromHistogram_max(hist) ==
    LET bins == 0 .. HistBins - 1
        air_candidates == {i \in bins : RLt(BinCenter(i), R(-600))}
        air_peak == IF air_candidates # {}
                    THEN BinCenter(ArgMax(hist, air_candidates)) ELSE R(-900)
        tissue_candidates ==
            {i \in bins : RGt(BinCenter(i), R(-200)) /\ RLt(BinCenter(i), R(200))}
        tissue_peak == IF tissue_candidates # {}
                       THEN BinCenter(ArgMax(hist, tissue_candidates)) ELSE R(0)
        valley_region ==
            {i \in bins : RGt(BinCenter(i), air_peak) /\ RLt(BinCenter(i), tissue_peak)}
        air_threshold == IF valley_region # {}
                         THEN BinCenter(ArgMax(hist, valley_region)) ELSE R(-400)
    IN  [air_threshold |-> air_threshold,
         tissue_lower |-> RSub(tissue_peak, R(100)),
         tissue_upper |-> RAdd(tissue_peak, R(100)),
         bone_threshold |-> R(300),
         sclerosis_threshold |-> R(900),
         air_peak |-> air_peak,
         tissue_peak |-> tissue_peak]

\* Lines 43-75: the peaks, the valley and the returned thresholds.
ThresholdsFromHistogram(hist) ==
    LET bins == 0 .. HistBins - 1
        air_candidates == {i \in bins : RLt(BinCenter(i), R(-600))}
        air_peak == IF air_candidates # {}
                    THEN BinCenter(ArgMax(hist, air_candidates)) ELSE R(-900)
        tissue_candidates ==
            {i \in bins : RGt(BinCenter(i), R(-200)) /\ RLt(BinCenter(i), R(200))}
        tissue_peak == IF tissue_candidates # {}
                       THEN BinCenter(ArgMax(hist, tissue_candidates)) ELSE R(0)
        valley_region ==
            {i \in bins : RGt(BinCenter(i), air_peak) /\ RLt(BinCenter(i), tissue_peak)}
        air_threshold == IF valley_region # {}
                         THEN BinCenter(ArgMin(hist, valley_region)) ELSE R(-400)
    IN  [air_threshold |-> air_threshold,
         tissue_lower |-> RSub(tissue_peak, R(100)),
         tissue_upper |-> RAdd(tissue_peak, R(100)),
         bone_threshold |-> R(300),
         sclerosis_threshold |-> R(900),
         air_peak |-> air_peak,
         tissue_peak |-> tissue_peak]

adaptive_threshold_air_tissue(vol, shp, mask) ==
    ThresholdsFromHistogram(Histogram(ThresholdRoi(vol, shp, mask)))

(***************************************************************************)
(* Thresholding scenario: thresholds are derived from a volume, with or    *)
(* without a cavity mask.                                                  *)
(***************************************************************************)
\* A 4 x 4 x 2 volume: its central 50 % is the four voxels (1..2, 1..2, 0).
ThrShape == <<4, 4, 2>>

\* How many of the central voxels vary; the others are air (-1000 HU).
NCentral == 3

\* The central voxels, in buffer order.
CentralVoxel(k) == At(ThrShape, 1 + (k \div 2), 1 + (k % 2), 0)

\* A voxel outside the central crop.
OuterVoxel == At(ThrShape, 0, 0, 1)

\* HU values below, at both ends of, inside and above the histogram range.
ThrHU == {-1001, -1000, -700, -400, -150, 0, 400}

OuterHU == {-700, 0}

\* Every voxel outside the patches is bone, above the histogram range.
ThrVolume(c, o) ==
    [p \in Voxels(ThrShape) |->
        R(IF \E k \in DOMAIN c : p = CentralVoxel(k) THEN
              c[CHOOSE k \in DOMAIN c : p = CentralVoxel(k)]
          ELSE IF p = OuterVoxel THEN o
          ELSE IF \E k \in 0 .. 3 : p = CentralVoxel(k) THEN -1000
          ELSE 1000)]

\* The cavity masks: none, one over the outer voxel and two central ones,
\* and one that selects no voxel.
ThrMasks ==
    {None,
     [p \in Voxels(ThrShape) |->
        IF p \in {OuterVoxel, CentralVoxel(0), CentralVoxel(1)} THEN 1 ELSE 0],
     [p \in Voxels(ThrShape) |-> 0]}

InitThr ==
    /\ pc = "raw"
    /\ shape = ThrShape
    /\ \E c \in [0 .. NCentral - 1 -> ThrHU], o \in OuterHU :
            volume = ThrVolume(c, o)
    /\ sinus_mask \in ThrMasks
    /\ thresholds = NotRun
    /\ CalIdle
    /\ LmIdle
    /\ OmcIdle
    /\ FnIdle
    /\ ProviderIdle

Threshold ==
    /\ pc = "raw"
    /\ thresholds' = adaptive_threshold_air_tissue(volume, shape, sinus_mask)
    /\ pc' = "thresholded"
    /\ UNCHANGED <<shape, volume, sinus_mask, calVars, lmVars, omcVars,
                   fnVars, provider>>

NextThr == Threshold

SpecThr == InitThr /\ [][NextThr]_vars

(***************************************************************************)
(* ClinicalScorer: clinical_scores.py                                      *)
(***************************************************************************)
Groups == {"frontal", "ant_ethmoid", "post_ethmoid", "maxillary", "sphenoid"}

Sides == {"L", "R"}

\* The indices a slice(b[1], b[2]) selects on an axis of length n.
SliceOf(b, n) == PySlice(b[1], b[2], n)

\* _sinus_regions: the slices of region <<group, side>> (the key group_side
\* of the returned dict) as <<start, stop>> pairs for z, y and x.
SinusRegionBounds(shp, group, side) ==
    LET z == shp[1]
        y == shp[2]
        x == shp[3]
        zc == z \div 2
        xc == x \div 2
        Max(a, b) == IF a > b THEN a ELSE b
        Min(a, b) == IF a < b THEN a ELSE b
        zs == CASE group = "frontal" -> <<Max(zc - 50, 0), Max(zc - 25, 1)>>
                [] group = "ant_ethmoid" -> <<Max(zc - 30, 0), Max(zc - 15, 1)>>
                [] group = "post_ethmoid" -> <<Max(zc - 15, 0), Max(zc - 5, 1)>>
                [] group = "maxillary" -> <<Max(zc - 5, 0), Min(zc + 15, z)>>
                [] group = "sphenoid" -> <<Max(zc + 10, 0), Min(zc + 30, z)>>
        xs == IF side = "L"
              THEN <<Max(xc - 60, 0), Max(xc - 1, 1)>>
              ELSE <<Min(xc + 1, x), Min(xc + 60, x)>>
    IN  <<zs, <<0, y>>, xs>>

\* The box of region <<group, side>> as <<z indices, y indices, x indices>>.
SinusRegion(shp, group, side) ==
    LET b == SinusRegionBounds(shp, group, side)
    IN  <<SliceOf(b[1], shp[1]), SliceOf(b[2], shp[2]), SliceOf(b[3], shp[3])>>

\* The voxels of a region box.
RegionVoxels(shp, group, side) ==
    LET b == SinusRegion(shp, group, side)
    IN  Box(shp, b[1], b[2], b[3])

\* An exact fraction a / b of two counts, b > 0.
Frac(a, b) == Norm(a, b)

\* A variant whose cut points belong to the lower score.
OpacificationScore_closed(opac_frac, cons) ==
    IF cons
    THEN IF RLe(opac_frac, Frac(20, 100)) THEN 0
         ELSE IF RLe(opac_frac, Frac(70, 100)) THEN 1
         ELSE 2
    ELSE IF RLe(opac_frac, Frac(10, 100)) THEN 0
         ELSE IF RLe(opac_frac, Frac(50, 100)) THEN 1
         ELSE 2

\* _opacification_score
OpacificationScore(opac_frac, cons) ==
    IF cons
    THEN IF RLt(opac_frac, Frac(20, 100)) THEN 0
         ELSE IF RLt(opac_frac, Frac(70, 100)) THEN 1
         ELSE 2
    ELSE IF RLt(opac_frac, Frac(10, 100)) THEN 0
         ELSE IF RLt(opac_frac, Frac(50, 100)) THEN 1
         ELSE 2

\* Lines 93-96: the air threshold and the soft-tissue range of the criteria.
LmAirThreshold(cons) == IF cons THEN R(-500) ELSE R(-400)

LmSoftTissue(cons) == IF cons THEN <<R(-50), R(50)>> ELSE <<R(-100), R(100)>>

\* The opacification fraction of a region: soft-tissue voxels of the air mask
\* over the voxels of the air mask, 0.0 when the region holds no air voxel.
RegionFraction(vol, shp, cons, group, side) ==
    LET st == LmSoftTissue(cons)
        region == RegionVoxels(shp, group, side)
        region_air == {p \in region : RLt(vol[p], LmAirThreshold(cons))}
        region_opac == {p \in region_air :
                            RGt(vol[p], st[1]) /\ RLt(vol[p], st[2])}
    IN  IF Cardinality(region_air) > 0
        THEN Frac(Cardinality(region_opac), Cardinality(region_air))
        ELSE R(0)

\* Lines 133-137: the Lund-Mackay OMC box of a side.
LmOmcBounds(shp, side) ==
    LET z == shp[1]
        y == shp[2]
        x == shp[3]
        midline == x \div 2
    IN  << <<z \div 2 - 30, z \div 2 - 10>>,
           <<y \div 2 + 10, y \div 2 + 40>>,
           IF side = "L" THEN <<midline - 25, midline - 5>>
           ELSE <<midline + 5, midline + 25>> >>

\* region = volume[zr[0]:zr[1], yr[0]:yr[1], xr[0]:xr[1]], as its voxels.
LmOmcBox(shp, side) ==
    LET b == LmOmcBounds(shp, side)
    IN  Box(shp, SliceOf(b[1], shp[1]), SliceOf(b[2], shp[2]),
            SliceOf(b[3], shp[3]))

\* A variant of _patency that divides without looking at the size.
LmOmcPatency_unguarded(vol, shp, cons, side) ==
    LET region == LmOmcBox(shp, side)
    IN  RMul(RDiv(R(Cardinality({p \in region :
                                    RLt(vol[p], LmAirThreshold(cons))})),
                  R(Cardinality(region))), R(100))

\* _patency of the Lund-Mackay OMC box of a side, in per cent.
LmOmcPatency(vol, shp, cons, side) ==
    LET region == LmOmcBox(shp, side)
    IN  IF Cardinality(region) > 0
        THEN RMul(Frac(Cardinality({p \in region :
                                        RLt(vol[p], LmAirThreshold(cons))}),
                       Cardinality(region)), R(100))
        ELSE R(0)

\* omc_cut = 70.0 if conservative else 60.0
LmOmcCut(cons) == IF cons THEN R(70) ELSE R(60)

\* A variant that scores the cutoff itself 2.
LmOmcScore_strict(patency, cons) ==
    IF RGt(patency, LmOmcCut(cons)) THEN 0 ELSE 2

\* Line 147: 0 if the patency reaches the cutoff, else 2.
LmOmcScore(patency, cons) ==
    IF ~RLt(patency, LmOmcCut(cons)) THEN 0 ELSE 2

\* A variant whose lm24 leaves out the right OMC score.
LmTotals_left_omc_only(per, omcs) ==
    LET left20 == per["frontal"]["L"] + per["ant_ethmoid"]["L"]
                    + per["post_ethmoid"]["L"] + per["maxillary"]["L"]
                    + per["sphenoid"]["L"]
        right20 == per["frontal"]["R"] + per["ant_ethmoid"]["R"]
                    + per["post_ethmoid"]["R"] + per["maxillary"]["R"]
                    + per["sphenoid"]["R"]
    IN  [lm20 |-> left20 + right20, lm24 |-> left20 + right20 + omcs["L"],
         left |-> left20 + omcs["L"], right |-> right20 + omcs["R"]]

\* Lines 149-165: the totals.
LmTotals(per, omcs) ==
    LET left20 == per["frontal"]["L"] + per["ant_ethmoid"]["L"]
                    + per["post_ethmoid"]["L"] + per["maxillary"]["L"]
                    + per["sphenoid"]["L"]
        right20 == per["frontal"]["R"] + per["ant_ethmoid"]["R"]
                    + per["post_ethmoid"]["R"] + per["maxillary"]["R"]
                    + per["sphenoid"]["R"]
        lm20 == left20 + right20
        left24 == left20 + omcs["L"]
        right24 == right20 + omcs["R"]
    IN  [lm20 |-> lm20, lm24 |-> left24 + right24,
         left |-> left24, right |-> right24]

compute_lund_mackay(vol, shp, cons) ==
    LET per == [g \in Groups |-> [sd \in Sides |->
                    OpacificationScore(RegionFraction(vol, shp, cons, g, sd),
                                       cons)]]
        pat == [sd \in Sides |-> LmOmcPatency(vol, shp, cons, sd)]
        omc_cut == LmOmcCut(cons)
        omcs == [sd \in Sides |-> LmOmcScore(pat[sd], cons)]
    IN  [by_region |-> per,
         omc |-> omcs,
         totals |-> LmTotals(per, omcs),
         omc_patency_pct |-> pat,
         criteria |-> [air_threshold |-> LmAirThreshold(cons),
                       soft_tissue_range |-> LmSoftTissue(cons),
                       omc_patency_zero_threshold_pct |-> omc_cut,
                       opacification_cutpoints |->
                            IF cons THEN <<Frac(20, 100), Frac(70, 100)>>
                            ELSE <<Frac(10, 100), Frac(50, 100)>>]]

(***************************************************************************)
(* Scoring scenario: a volume of one background density with one region    *)
(* box refilled is scored under one of the two criteria.                   *)
(***************************************************************************)
\* Depth 62 gives five non-empty depth bands; width 4 gives one column a side.
LmShapes == {<<62, 1, 4>>, <<62, 2, 6>>}

\* Air, a density between the two air thresholds, and soft tissue.
LmBackgroundHU == {-1000, -450, 0}

\* Air, soft tissue of both criteria, of the standard criteria only, bone.
LmFillHU == {-1000, -60, 0, 60, 500}

LmVolume(shp, bg, group, side, fill) ==
    LET region == RegionVoxels(shp, group, side)
    IN  [p \in Voxels(shp) |-> R(IF p \in region THEN fill ELSE bg)]

\* A shape whose Lund-Mackay OMC boxes hold 5 x 1 x 2 voxels a side.
LmOmcShape == <<10, 21, 14>>

\* The air voxels of the right OMC box in the volumes with air in the boxes.
LmRightAirCounts == {0, 6, 7, 10}

\* The first n voxels of a set of buffer positions.
FirstVoxels(S, n) == {p \in S : Cardinality({q \in S : q < p}) < n}

\* A soft-tissue volume with nl air voxels in the left OMC box and nr in the
\* right one.
LmOmcVolume(nl, nr, air) ==
    LET filled == FirstVoxels(LmOmcBox(LmOmcShape, "L"), nl)
                    \cup FirstVoxels(LmOmcBox(LmOmcShape, "R"), nr)
    IN  [p \in Voxels(LmOmcShape) |-> R(IF p \in filled THEN air ELSE 0)]

InitLm ==
    /\ pc = "raw"
    /\ \/ /\ shape \in LmShapes
          /\ \E bg \in LmBackgroundHU, g \in Groups, sd \in Sides,
                fill \in LmFillHU :
                    volume = LmVolume(shape, bg, g, sd, fill)
       \/ /\ shape = LmOmcShape
          /\ \E nl \in 0 .. Cardinality(LmOmcBox(LmOmcShape, "L")),
                nr \in LmRightAirCounts, air \in {-1000, -450} :
                    volume = LmOmcVolume(nl, nr, air)
    /\ conservative \in BOOLEAN
    /\ lund_mackay = NotRun
    /\ CalIdle
    /\ ThrIdle
    /\ OmcIdle
    /\ FnIdle
    /\ ProviderIdle

Score ==
    /\ pc = "raw"
    /\ lund_mackay' = compute_lund_mackay(volume, shape, conservative)
    /\ pc' = "scored"
    /\ UNCHANGED <<shape, volume, conservative, calVars, thrVars, omcVars,
                   fnVars, provider>>

NextLm == Score

SpecLm == InitLm /\ [][NextLm]_vars

(***************************************************************************)
(* Fraction scenario: _opacification_score is applied to a fraction of     *)
(* two voxel counts.                                                       *)
(***************************************************************************)
\* opac_count / air_count for the counts of a region of 100 or of 7 voxels.
OpacFractions == {Frac(n, 100) : n \in 0 .. 100} \cup {Frac(n, 7) : n \in 0 .. 7}

InitFraction ==
    /\ pc = "raw"
    /\ \E f \in OpacFractions, cons \in BOOLEAN :
            args = [opac_frac |-> f, conservative |-> cons]
    /\ result = NotRun
    /\ shape = NotRun
    /\ volume = NotRun
    /\ CalIdle
    /\ ThrIdle
    /\ LmIdle
    /\ OmcIdle
    /\ ProviderIdle

ScoreFraction ==
    /\ pc = "raw"
    /\ result' = OpacificationScore(args.opac_frac, args.conservative)
    /\ pc' = "scored"
    /\ UNCHANGED <<shape, volume, args, calVars, thrVars, lmVars, omcVars,
                   provider>>

NextFraction == ScoreFraction

SpecFraction == InitFraction /\ [][NextFraction]_vars

(***************************************************************************)
(* OMC patency: sinus/anatomical.py, measure_omc_patency_coronal           *)
(***************************************************************************)
\* The candidates in the order of the list, the bounds of z and of y in
\* hundredths of the axis length.
OmcCandidates ==
    << [name |-> "anterior_superior", z |-> <<25, 45>>, y |-> <<35, 55>>],
       [name |-> "mid_anterior", z |-> <<35, 55>>, y |-> <<40, 60>>],
       [name |-> "posterior_mid", z |-> <<40, 60>>, y |-> <<50, 70>>] >>

OmcSides == {"left", "right"}

\* x_left = slice(midline - 50, midline - 5), x_right = slice(midline + 5,
\* midline + 50), as <<start, stop>>.
OmcXBounds(shp, side) ==
    LET midline == shp[3] \div 2
    IN  IF side = "left" THEN <<midline - 50, midline - 5>>
        ELSE <<midline + 5, midline + 50>>

\* The indices the x range of a side selects.
OmcXRange(shp, side) == SliceOf(OmcXBounds(shp, side), shp[3])

\* The <<start, stop>> pairs of volume[z_start:z_end, y_start:y_end, x_range].
CorridorBounds(shp, cand, side) ==
    << <<IntFrac(shp[1], cand.z[1], 100), IntFrac(shp[1], cand.z[2], 100)>>,
       <<IntFrac(shp[2], cand.y[1], 100), IntFrac(shp[2], cand.y[2], 100)>>,
       OmcXBounds(shp, side) >>

\* corridor = volume[z_start:z_end, y_start:y_end, x_range] as the three index
\* ranges it selects.
Corridor(shp, cand, side) ==
    LET b == CorridorBounds(shp, cand, side)
    IN  <<SliceOf(b[1], shp[1]), SliceOf(b[2], shp[2]), SliceOf(b[3], shp[3])>>

\* air_mask = corridor < air_threshold, as the set of its true positions.
AirMask(vol, shp, cor, air_th) ==
    {p \in cor[1] \X cor[2] \X cor[3] :
        RLt(vol[At(shp, p[1], p[2], p[3])], air_th)}

\* The 2x2x2 structuring element placed with its low corner at p.
Block222(p) ==
    {<<p[1] + a, p[2] + b, p[3] + c>> : a \in 0 .. 1, b \in 0 .. 1, c \in 0 .. 1}

\* A variant that erodes and does not dilate: the low corners of the blocks.
BinaryOpening_eroded(mask) == {q \in mask : Block222(q) \subseteq mask}

\* ndimage.binary_opening(mask, structure=np.ones((2, 2, 2))): erosion then
\* dilation with border value 0, which keeps the voxels of the blocks that
\* lie inside the mask.
BinaryOpening(mask) == UNION {Block222(p) : p \in {q \in mask : Block222(q) \subseteq mask}}

\* The six face neighbours, the default structure of ndimage.label.
Neighbours(p) ==
    { <<p[1] - 1, p[2], p[3]>>, <<p[1] + 1, p[2], p[3]>>,
      <<p[1], p[2] - 1, p[3]>>, <<p[1], p[2] + 1, p[3]>>,
      <<p[1], p[2], p[3] - 1>>, <<p[1], p[2], p[3] + 1>> }

RECURSIVE Flood(_, _, _)
\* The component of mask that holds the frontier, done being its visited part.
Flood(done, frontier, mask) ==
    IF frontier = {} THEN done
    ELSE LET seen == {q \in mask : q \in done \/ q \in frontier}
             next == {q \in UNION {Neighbours(p) : p \in frontier} :
                        q \in mask /\ q \notin seen}
         IN  Flood(seen, next, mask)

RECURSIVE Label(_)
\* ndimage.label: the connected components of the mask.
Label(mask) ==
    IF mask = {} THEN {}
    ELSE LET c == Flood({}, {CHOOSE p \in mask : TRUE}, mask)
         IN  {c} \cup Label({q \in mask : q \notin c})

\* np.isin(labeled, valid) with valid the components of at least 3 voxels.
FilterComponents(components) ==
    UNION {c \in components : Cardinality(c) >= 3}

\* A variant that divides by the length of a row instead of the slice size.
SliceFractions_per_row(filtered, cor) ==
    LET slice_total == Cardinality(cor[3])
    IN  [i \in cor[1] |->
            IF slice_total > 0
            THEN Norm(Cardinality({p \in filtered : p[1] = i}), slice_total)
            ELSE R(0)]

\* slice_fractions: per slice of the corridor, the filtered air voxels over the
\* voxels of the slice, 0.0 for an empty slice.
SliceFractions(filtered, cor) ==
    LET slice_total == Cardinality(cor[2]) * Cardinality(cor[3])
    IN  [i \in cor[1] |->
            IF slice_total > 0
            THEN Norm(Cardinality({p \in filtered : p[1] = i}), slice_total)
            ELSE R(0)]

\* A classification that counts the cut points themselves to the upper class.
Classify_inclusive(air_fraction) ==
    IF RLe(Norm(12, 100), air_fraction) THEN "Patent"
    ELSE IF RLe(Norm(8, 100), air_fraction) THEN "Indeterminate"
    ELSE "Obstructed"

\* Lines 232-237.
Classify(air_fraction) ==
    IF RGt(air_fraction, Norm(12, 100)) THEN "Patent"
    ELSE IF RGt(air_fraction, Norm(8, 100)) THEN "Indeterminate"
    ELSE "Obstructed"

RECURSIVE SumByValue(_, _, _)
\* The sum of the samples with keys in ks whose value is in vals, each value
\* taken as often as it occurs.
SumByValue(vals, a, ks) ==
    IF vals = {} THEN R(0)
    ELSE LET v == CHOOSE t \in vals : TRUE
         IN  RAdd(RMul(v, R(Cardinality({k \in ks : a[k] = v}))),
                  SumByValue(vals \ {v}, a, ks))

\* The sum of the samples with keys in ks.
SumOf(a, ks) == SumByValue({a[k] : k \in ks}, a, ks)

\* np.std(a) ** 2: the mean squared deviation from the mean.
Variance(a) ==
    LET n == R(Size(a))
        mean == RDiv(SumOf(a, DOMAIN a), n)
        dev2 == [k \in DOMAIN a |->
                    RMul(RSub(a[k], mean), RSub(a[k], mean))]
    IN  RDiv(SumOf(dev2, DOMAIN a), n)

\* The number 1 - sqrt(q), kept by its q.
OneMinusSqrt(q) == [one_minus_sqrt_of |-> q]

\* confidence = 1.0 - min(std_frac * 2.0, 0.99), as 1 - sqrt(min(4 var, 0.99^2)).
Confidence(slice_fractions) ==
    OneMinusSqrt(PyMin(RMul(R(4), Variance(slice_fractions)),
                       Norm(9801, 10000)))

\* The candidate the loop body leaves without a result (continue).
Skipped == [skipped |-> TRUE]

\* The body of the candidate loop up to the comparison with the best so far.
EvaluateCandidate(vol, shp, cand, side, air_th) ==
    LET cor == Corridor(shp, cand, side)
        components == Label(BinaryOpening(AirMask(vol, shp, cor, air_th)))
        fracs == SliceFractions(FilterComponents(components), cor)
        air_fraction == Median(fracs)
    IN  IF components = {} THEN Skipped
        ELSE [candidate |-> cand,
              air_fraction |-> air_fraction,
              classification |-> Classify(air_fraction),
              confidence |-> Confidence(fracs)]

\* A variant that starts the loop without a classification.
NoBest_unclassified ==
    [air_fraction |-> R(0), classification |-> "Indeterminate",
     confidence |-> OneMinusSqrt(NaN), candidate |-> None]

\* The values of the best_* variables before the candidate loop; candidate is
\* the entry of the list best_candidate names, or None.
NoBest ==
    [air_fraction |-> R(0), classification |-> "Obstructed",
     confidence |-> OneMinusSqrt(R(0)), candidate |-> None]

\* A variant that lets a later candidate of equal air fraction win.
KeepBest_last(best, ev) ==
    IF ev # Skipped /\ RLe(best.air_fraction, ev.air_fraction) THEN ev ELSE best

\* Lines 244-249: keep the candidate when its air fraction exceeds the best.
KeepBest(best, ev) ==
    IF ev # Skipped /\ RGt(ev.air_fraction, best.air_fraction) THEN ev ELSE best

RECURSIVE BestCandidate(_, _, _, _, _)
\* The best_* variables after the first k candidates.
BestCandidate(vol, shp, side, air_th, k) ==
    IF k = 0 THEN NoBest
    ELSE KeepBest(BestCandidate(vol, shp, side, air_th, k - 1),
                  EvaluateCandidate(vol, shp, OmcCandidates[k], side, air_th))

measure_omc_patency_coronal(vol, shp, air_th) ==
    [side \in OmcSides |->
        LET best == BestCandidate(vol, shp, side, air_th, Len(OmcCandidates))
        IN  [air_fraction |-> best.air_fraction,
             air_fraction_pct |-> RMul(best.air_fraction, R(100)),
             classification |-> best.classification,
             confidence |-> best.confidence,
             best_candidate |->
                IF best.candidate # None THEN best.candidate.name
                ELSE "none"]]

(***************************************************************************)
(* Patency scenario: a soft-tissue volume in which a few boxes are refilled *)
(* with a lower density is measured with one of two air thresholds.  The   *)
(* corridors of this shape have three slices of 5 x 10 voxels, so that     *)
(* np.median returns one of the slice fractions.                           *)
(***************************************************************************)
OmcShape == <<15, 25, 30>>

\* At most this many boxes are refilled.
MaxBoxes == 2

BoxOf(z0, z1, y0, y1, x0, x1) == (z0 .. z1) \X (y0 .. y1) \X (x0 .. x1)

\* Boxes inside the left corridors (x 0..9), the right corridors (x 20..29)
\* and between them, by inclusive voxel ranges.
OmcBoxes ==
    << BoxOf(3, 4, 8, 9, 0, 1),         \* left, first candidate, two slices
       BoxOf(3, 5, 8, 9, 3, 5),         \* left, first candidate, 6 per slice
       BoxOf(7, 8, 15, 16, 0, 2),       \* left, third candidate, 6 per slice
       BoxOf(6, 8, 14, 16, 4, 7),       \* left, third candidate, 12 per slice
       BoxOf(5, 7, 10, 11, 7, 8),       \* left, second candidate
       BoxOf(3, 4, 8, 9, 20, 21),       \* right, first candidate, 4 per slice
       BoxOf(5, 7, 12, 13, 24, 26),     \* right, second and third candidate
       BoxOf(3, 8, 8, 16, 9, 9),        \* left, a sheet one voxel thick
       BoxOf(3, 8, 8, 16, 12, 17) >>    \* between the corridors

\* Air and a density between the two thresholds.
OmcFillHU == {-1000, -500}

\* The default air_threshold and an adaptive one.
OmcThresholds == {R(-400), R(-685)}

OmcVolume(boxes, fill) ==
    LET filled == {At(OmcShape, p[1], p[2], p[3]) :
                        p \in UNION {OmcBoxes[b] : b \in boxes}}
    IN  [v \in Voxels(OmcShape) |-> R(IF v \in filled THEN fill ELSE 0)]

InitOmc ==
    /\ pc = "raw"
    /\ shape = OmcShape
    /\ \E boxes \in SUBSET DOMAIN OmcBoxes, fill \in OmcFillHU :
            /\ Cardinality(boxes) <= MaxBoxes
            /\ volume = OmcVolume(boxes, fill)
    /\ omc_threshold \in OmcThresholds
    /\ omc = NotRun
    /\ CalIdle
    /\ ThrIdle
    /\ LmIdle
    /\ FnIdle
    /\ ProviderIdle

Measure ==
    /\ pc = "raw"
    /\ omc' = measure_omc_patency_coronal(volume, shape, omc_threshold)
    /\ pc' = "measured"
    /\ UNCHANGED <<shape, volume, omc_threshold, calVars, thrVars, lmVars,
                   fnVars, provider>>

NextOmc == Measure

SpecOmc == InitOmc /\ [][NextOmc]_vars

(***************************************************************************)
(* Masks: a boolean array of the shape of the volume is the set of its     *)
(* true positions <<i, j, k>>.                                             *)
(***************************************************************************)
AllVoxels(shp) == (0 .. shp[1] - 1) \X (0 .. shp[2] - 1) \X (0 .. shp[3] - 1)

InBounds(shp, p) ==
    /\ p[1] \in 0 .. shp[1] - 1
    /\ p[2] \in 0 .. shp[2] - 1
    /\ p[3] \in 0 .. shp[3] - 1

\* The position <<i, j, k>> of place v of the buffer.
Unravel(shp, v) ==
    << (v - 1) \div (shp[2] * shp[3]), ((v - 1) \div shp[3]) % shp[2],
       (v - 1) % shp[3] >>

\* volume[p]
HU(vol, shp, p) == vol[At(shp, p[1], p[2], p[3])]

RECURSIVE BinaryDilation(_, _, _)
\* ndimage.binary_dilation(mask, iterations=n): the default structure is the
\* six face neighbours, positions outside the array do not exist.
BinaryDilation(mask, shp, iterations) ==
    IF iterations = 0 THEN mask
    ELSE LET grown == {q \in AllVoxels(shp) :
                            q \in mask \/ Neighbours(q) \cap mask # {}}
         IN  BinaryDilation(grown, shp, iterations - 1)

RECURSIVE BinaryErosion(_, _)
\* ndimage.binary_erosion(mask, iterations=n): the default structure is the
\* six face neighbours, positions outside the array count as false.
BinaryErosion(mask, iterations) ==
    IF iterations = 0 THEN mask
    ELSE BinaryErosion({p \in mask : Neighbours(p) \subseteq mask},
                       iterations - 1)

\* anatomical.py, build_sinus_wall_shell
build_sinus_wall_shell(cavity_mask, shp, shell_thickness) ==
    BinaryDilation(cavity_mask, shp, shell_thickness) \ cavity_mask

RECURSIVE LabelInOrder(_, _)
\* ndimage.label: the components in the order of their labels, the order in
\* which a scan of the buffer meets them.
LabelInOrder(mask, shp) ==
    IF mask = {} THEN <<>>
    ELSE LET first == CHOOSE p \in mask :
                        \A q \in mask : At(shp, p[1], p[2], p[3])
                                            <= At(shp, q[1], q[2], q[3])
             c == Flood({}, {first}, mask)
         IN  <<c>> \o LabelInOrder({q \in mask : q \notin c}, shp)

(***************************************************************************)
(* SclerosisDetector: sinus/pathology.py, compute_sclerosis_zscore         *)
(***************************************************************************)
\* A variant whose threshold falls as z_threshold rises.
SclerosisThreshold_below(reference_bone_hu, z_threshold) ==
    RSub(reference_bone_hu[1], RMul(z_threshold, reference_bone_hu[2]))

\* threshold_hu = ref_mean + z_threshold * ref_std
SclerosisThreshold(reference_bone_hu, z_threshold) ==
    RAdd(reference_bone_hu[1], RMul(z_threshold, reference_bone_hu[2]))

\* A variant that thresholds the whole volume instead of the shell.
compute_sclerosis_zscore_unmasked(vol, shp, shell_mask, reference_bone_hu, z_threshold, min_cluster_size) ==
    LET threshold_hu == SclerosisThreshold(reference_bone_hu, z_threshold)
        sclerotic_mask == {p \in AllVoxels(shp) : RGt(HU(vol, shp, p), threshold_hu)}
        valid_clusters == {c \in Label(sclerotic_mask) :
                                Cardinality(c) >= min_cluster_size}
        sclerotic_voxels_filtered == Cardinality(UNION valid_clusters)
    IN  [sclerotic_fraction |->
            IF Cardinality(shell_mask) > 0
            THEN Norm(sclerotic_voxels_filtered, Cardinality(shell_mask))
            ELSE R(0),
         sclerotic_volume_voxels |-> sclerotic_voxels_filtered,
         n_clusters |-> Cardinality(valid_clusters),
         reference_mean_hu |-> reference_bone_hu[1],
         reference_std_hu |-> reference_bone_hu[2],
         threshold_hu |-> threshold_hu,
         z_threshold |-> z_threshold]

compute_sclerosis_zscore(vol, shp, shell_mask, reference_bone_hu, z_threshold, min_cluster_size) ==
    LET threshold_hu == SclerosisThreshold(reference_bone_hu, z_threshold)
        sclerotic_mask == {p \in shell_mask : RGt(HU(vol, shp, p), threshold_hu)}
        valid_clusters == {c \in Label(sclerotic_mask) :
                                Cardinality(c) >= min_cluster_size}
        sclerotic_voxels_filtered == Cardinality(UNION valid_clusters)
    IN  [sclerotic_fraction |->
            IF Cardinality(shell_mask) > 0
            THEN Norm(sclerotic_voxels_filtered, Cardinality(shell_mask))
            ELSE R(0),
         sclerotic_volume_voxels |-> sclerotic_voxels_filtered,
         n_clusters |-> Cardinality(valid_clusters),
         reference_mean_hu |-> reference_bone_hu[1],
         reference_std_hu |-> reference_bone_hu[2],
         threshold_hu |-> threshold_hu,
         z_threshold |-> z_threshold]

(***************************************************************************)
(* CystDetector: sinus/pathology.py, detect_retention_cysts_strict         *)
(***************************************************************************)
\* z_cutoff = int(z * 0.2)
OstiumCutoff(shp) == IntFrac(shp[1], 20, 100)

\* Lines 109-119: the candidate voxels.
CystCandidates(vol, shp, cavity_mask, hu_range, wall_proximity_voxels) ==
    LET in_range == {p \in cavity_mask :
                        /\ RGt(HU(vol, shp, p), hu_range[1])
                        /\ RLt(HU(vol, shp, p), hu_range[2])}
        below_ostium == {p \in in_range : p[1] >= OstiumCutoff(shp)}
        near_wall == cavity_mask \ BinaryErosion(cavity_mask, wall_proximity_voxels)
    IN  below_ostium \cap near_wall

\* coords[axis].max() - coords[axis].min() + 1
Extent(component, axis) ==
    LET cs == {p[axis] : p \in component}
    IN  MaxOf(cs) - MinOf(cs) + 1

\* solidity = component.sum() / bbox_volume
Solidity(component) ==
    Norm(Cardinality(component),
         Extent(component, 1) * Extent(component, 2) * Extent(component, 3))

RECURSIVE SumIntByValue(_, _, _)
SumIntByValue(vals, f, ks) ==
    IF vals = {} THEN 0
    ELSE LET v == CHOOSE t \in vals : TRUE
         IN  v * Cardinality({k \in ks : f[k] = v})
                + SumIntByValue(vals \ {v}, f, ks)

\* The sum of the integers f[k], k in ks.
SumInt(f, ks) == SumIntByValue({f[k] : k \in ks}, f, ks)

\* The record appended for a component that passed the filters.
CystRecord(vol, shp, component, voxel_volume_mm3) ==
    LET n == Cardinality(component)
    IN  [volume_mm3 |-> RMul(R(n), voxel_volume_mm3),
         mean_hu |-> RDiv(SumOf([p \in component |-> HU(vol, shp, p)], component),
                          R(n)),
         centroid |-> [axis \in 1 .. 3 |->
                        Norm(SumInt([p \in component |-> p[axis]], component), n)],
         solidity |-> Solidity(component)]

\* A variant that keeps the components below the solidity bound too.
PassesCystFilters_any_shape(component, voxel_volume_mm3, min_area_mm2, max_area_mm2) ==
    LET volume_mm3 == RMul(R(Cardinality(component)), voxel_volume_mm3)
    IN  /\ ~RLt(volume_mm3, min_area_mm2)
        /\ ~RGt(volume_mm3, max_area_mm2)

\* Lines 127-142: the size filter and the convexity filter.
PassesCystFilters(component, voxel_volume_mm3, min_area_mm2, max_area_mm2) ==
    LET volume_mm3 == RMul(R(Cardinality(component)), voxel_volume_mm3)
    IN  /\ ~RLt(volume_mm3, min_area_mm2)
        /\ ~RGt(volume_mm3, max_area_mm2)
        /\ ~RLt(Solidity(component), Norm(1, 2))

detect_retention_cysts_strict(vol, shp, cavity_mask, spacing, hu_range, min_area_mm2, max_area_mm2, wall_proximity_voxels) ==
    LET voxel_volume_mm3 == RMul(RMul(spacing[1], spacing[2]), spacing[3])
        components == LabelInOrder(
            CystCandidates(vol, shp, cavity_mask, hu_range, wall_proximity_voxels),
            shp)
        passed == SelectSeq(components,
                    LAMBDA c : PassesCystFilters(c, voxel_volume_mm3,
                                                 min_area_mm2, max_area_mm2))
        cysts == [i \in 1 .. Len(passed) |->
                    CystRecord(vol, shp, passed[i], voxel_volume_mm3)]
    IN  [cyst_count |-> Len(cysts), cysts |-> cysts]

(***************************************************************************)
(* Uniform scenario: a volume of one density goes through the four         *)
(* analyzers in the order of sinus_analysis.py.                            *)
(***************************************************************************)
\* Three corridor slices; two corridor slices and a width between 45 and 99;
\* a single corridor slice.
UniformShapes == {<<15, 25, 30>>, <<10, 10, 46>>, <<6, 6, 12>>}

\* Air, a density between the two thresholds, soft tissue.
UniformHU == {-1000, -500, 0}

UniformVolume(shp, hu) == [v \in Voxels(shp) |-> R(hu)]

\* cavity_mask = volume_calibrated < air_threshold
CavityMask(vol, shp, air_th) == {p \in AllVoxels(shp) : RLt(HU(vol, shp, p), air_th)}

\* The arguments sinus_analysis.py passes besides the volume and the masks:
\* the reference statistics are the fallback of estimate_reference_bone_stats.
PipelineArgs ==
    [spacing |-> <<R(1), R(1), R(1)>>,
     reference_bone_hu |-> <<R(1100), R(150)>>,
     z_threshold |-> R(2),
     min_cluster_size |-> 30,
     shell_thickness |-> 2,
     hu_range |-> <<R(-50), R(50)>>,
     min_area_mm2 |-> R(15),
     max_area_mm2 |-> R(500),
     wall_proximity_voxels |-> 3]

InitUniform ==
    /\ pc = "raw"
    /\ shape \in UniformShapes
    /\ \E hu \in UniformHU : volume = UniformVolume(shape, hu)
    /\ omc_threshold \in OmcThresholds
    /\ omc = NotRun
    /\ conservative \in BOOLEAN
    /\ lund_mackay = NotRun
    /\ args = PipelineArgs
    /\ result = [sclerosis |-> NotRun, cysts |-> NotRun]
    /\ CalIdle
    /\ ThrIdle
    /\ ProviderIdle

AnalyzeOmc ==
    /\ pc = "raw"
    /\ omc' = measure_omc_patency_coronal(volume, shape, omc_threshold)
    /\ pc' = "omc"
    /\ UNCHANGED <<shape, volume, omc_threshold, calVars, thrVars, lmVars,
                   fnVars, provider>>

AnalyzeSclerosis ==
    /\ pc = "omc"
    /\ pc' = "sclerosis"
    /\ result' = [result EXCEPT !.sclerosis =
            compute_sclerosis_zscore(volume, shape,
                build_sinus_wall_shell(CavityMask(volume, shape, omc_threshold),
                                       shape, args.shell_thickness),
                args.reference_bone_hu, args.z_threshold, args.min_cluster_size)]
    /\ UNCHANGED <<shape, volume, args, calVars, thrVars, lmVars, omcVars,
                   provider>>

AnalyzeCysts ==
    /\ pc = "sclerosis"
    /\ pc' = "cysts"
    /\ result' = [result EXCEPT !.cysts =
            detect_retention_cysts_strict(volume, shape,
                CavityMask(volume, shape, omc_threshold), args.spacing,
                args.hu_range, args.min_area_mm2, args.max_area_mm2,
                args.wall_proximity_voxels)]
    /\ UNCHANGED <<shape, volume, args, calVars, thrVars, lmVars, omcVars,
                   provider>>

AnalyzeLundMackay ==
    /\ pc = "cysts"
    /\ lund_mackay' = compute_lund_mackay(volume, shape, conservative)
    /\ pc' = "analyzed"
    /\ UNCHANGED <<shape, volume, conservative, calVars, thrVars, omcVars,
                   fnVars, provider>>

NextUniform ==
    \/ AnalyzeOmc
    \/ AnalyzeSclerosis
    \/ AnalyzeCysts
    \/ AnalyzeLundMackay

SpecUniform == InitUniform /\ [][NextUniform]_vars

(***************************************************************************)
(* Striped scenario: a volume of slabs of air, soft tissue and bone goes   *)
(* through the four analyzers.                                             *)
(***************************************************************************)
StripedShape == <<14, 25, 14>>

\* The rows a pattern of slabs repeats after: two of air, two of soft
\* tissue, eight of bone.
StripePeriod == <<"air", "air", "soft", "soft", "bone", "bone", "bone", "bone",
                  "bone", "bone", "bone", "bone">>

\* The row of the volume the pattern starts at.
StripeOffsets == {0, 3, 6, 9}

\* Bone above and below reference mean + 2 std = 1400 HU.
StripeBoneHU == {1300, 1500}

StripedVolume(offset, bone) ==
    [v \in Voxels(StripedShape) |->
        LET s == StripePeriod[((Unravel(StripedShape, v)[2] + offset)
                                    % Len(StripePeriod)) + 1]
        IN  R(IF s = "bone" THEN bone ELSE IF s = "soft" THEN 0 ELSE -1000)]

InitStriped ==
    /\ pc = "raw"
    /\ shape = StripedShape
    /\ \E offset \in StripeOffsets, bone \in StripeBoneHU :
            volume = StripedVolume(offset, bone)
    /\ omc_threshold \in OmcThresholds
    /\ omc = NotRun
    /\ conservative \in BOOLEAN
    /\ lund_mackay = NotRun
    /\ args = PipelineArgs
    /\ result = [sclerosis |-> NotRun, cysts |-> NotRun]
    /\ CalIdle
    /\ ThrIdle
    /\ ProviderIdle

SpecStriped == InitStriped /\ [][NextUniform]_vars

(***************************************************************************)
(* Sclerosis scenario: compute_sclerosis_zscore runs on one volume, shell   *)
(* mask, reference and min_cluster_size with two z thresholds z1 <= z2.    *)
(***************************************************************************)
SclShape == <<1, 3, 4>>

\* Wall densities around the thresholds 1100, 1250, 1400 and 1550 HU that the
\* reference (1100, 150) gives for z = 0 .. 3.
SclLevels == <<1000, 1200, 1350, 1500, 1600>>

\* The volume whose voxel v has the level (a * v + b) mod 5.
SclVolume(a, b) ==
    [v \in Voxels(SclShape) |-> R(SclLevels[((a * v + b) % 5) + 1])]

\* The whole slice, its border ring, and its two outer columns.
SclShells ==
    { AllVoxels(SclShape),
      {p \in AllVoxels(SclShape) : p[2] # 1 \/ p[3] \in {0, 3}},
      {p \in AllVoxels(SclShape) : p[3] \in {0, 3}} }

\* The fallback of estimate_reference_bone_stats, and statistics of a
\* reference region of one density.
SclReferences == { <<R(1100), R(150)>>, <<R(1250), R(0)>> }

SclZThresholds == {R(0), R(1), R(2), R(3)}

\* The largest min_cluster_size.
MaxCluster == 3

InitSclerosis ==
    /\ pc = "raw"
    /\ shape = SclShape
    /\ \E a \in 1 .. 2, b \in 0 .. 4 : volume = SclVolume(a, b)
    /\ \E sh \in SclShells, ref \in SclReferences, z1 \in SclZThresholds,
          z2 \in SclZThresholds, mcs \in 1 .. MaxCluster :
            /\ RLe(z1, z2)
            /\ args = [shell_mask |-> sh, reference_bone_hu |-> ref,
                       z1 |-> z1, z2 |-> z2, min_cluster_size |-> mcs]
    /\ result = NotRun
    /\ CalIdle
    /\ ThrIdle
    /\ LmIdle
    /\ OmcIdle
    /\ ProviderIdle

DetectSclerosis ==
    /\ pc = "raw"
    /\ result' =
        [with_z1 |-> compute_sclerosis_zscore(volume, shape, args.shell_mask,
                        args.reference_bone_hu, args.z1, args.min_cluster_size),
         with_z2 |-> compute_sclerosis_zscore(volume, shape, args.shell_mask,
                        args.reference_bone_hu, args.z2, args.min_cluster_size)]
    /\ pc' = "detected"
    /\ UNCHANGED <<shape, volume, args, calVars, thrVars, lmVars, omcVars,
                   provider>>

NextSclerosis == DetectSclerosis

SpecSclerosis == InitSclerosis /\ [][NextSclerosis]_vars

(***************************************************************************)
(* Cyst scenario: detect_retention_cysts_strict runs on an air cavity that *)
(* holds a few blobs of another density.                                   *)
(***************************************************************************)
CystShape == <<7, 7, 7>>

\* At most this many blobs are placed.
MaxBlobs == 2

\* The blobs, by their voxels: a box in a corner, a box that reaches into the
\* first slice, two bars that meet in a corner, the central voxel, a large
\* box, a flat box at a wall.
CystBlobs ==
    << BoxOf(1, 3, 0, 2, 0, 2),
       BoxOf(0, 1, 4, 6, 4, 6),
       BoxOf(5, 5, 0, 0, 0, 4) \cup BoxOf(5, 5, 0, 4, 0, 0),
       BoxOf(3, 3, 3, 3, 3, 3),
       BoxOf(2, 6, 2, 6, 2, 6),
       BoxOf(3, 4, 5, 6, 0, 3) >>

\* Densities inside and outside the window (-50, 50).
CystBlobHU == {0, 50}

\* The whole volume, and a cavity with bone in front of and behind it.
CystCavities ==
    { AllVoxels(CystShape), {p \in AllVoxels(CystShape) : p[2] \in 1 .. 5} }

CystSpacings ==
    { <<R(1), R(1), R(1)>>, <<Norm(1, 2), Norm(1, 2), Norm(1, 2)>>,
      <<R(2), R(2), R(2)>> }

\* Air in the cavity, bone outside, the blobs refilled.
CystVolume(cavity, blobs, hu) ==
    LET filled == UNION {CystBlobs[b] : b \in blobs}
    IN  [v \in Voxels(CystShape) |->
            R(IF Unravel(CystShape, v) \in filled THEN hu
              ELSE IF Unravel(CystShape, v) \in cavity THEN -1000 ELSE 700)]

InitCysts ==
    /\ pc = "raw"
    /\ shape = CystShape
    /\ \E cavity \in CystCavities, blobs \in SUBSET DOMAIN CystBlobs,
          hu \in CystBlobHU, spacing \in CystSpacings, prox \in {1, 3} :
            /\ Cardinality(blobs) <= MaxBlobs
            /\ volume = CystVolume(cavity, blobs, hu)
            /\ args = [cavity_mask |-> cavity \cup UNION {CystBlobs[b] : b \in blobs},
                       spacing |-> spacing,
                       hu_range |-> <<R(-50), R(50)>>,
                       min_area_mm2 |-> R(15),
                       max_area_mm2 |-> R(500),
                       wall_proximity_voxels |-> prox]
    /\ result = NotRun
    /\ CalIdle
    /\ ThrIdle
    /\ LmIdle
    /\ OmcIdle
    /\ ProviderIdle

DetectCysts ==
    /\ pc = "raw"
    /\ result' = detect_retention_cysts_strict(volume, shape, args.cavity_mask,
                    args.spacing, args.hu_range, args.min_area_mm2,
                    args.max_area_mm2, args.wall_proximity_voxels)
    /\ pc' = "detected"
    /\ UNCHANGED <<shape, volume, args, calVars, thrVars, lmVars, omcVars,
                   provider>>

NextCysts == DetectCysts

SpecCysts == InitCysts /\ [][NextCysts]_vars

(***************************************************************************)
(* The copies of the two detectors in sinus/anatomical.py.  Their text is  *)
(* the text of the functions of sinus/pathology.py, statement by           *)
(* statement, so each step is the operator that models that statement.     *)
(***************************************************************************)
\* anatomical.py, compute_sclerosis_zscore
anatomical_compute_sclerosis_zscore(vol, shp, shell_mask, reference_bone_hu, z_threshold, min_cluster_size) ==
    LET threshold_hu == RAdd(reference_bone_hu[1],
                             RMul(z_threshold, reference_bone_hu[2]))
        sclerotic_mask == {p \in shell_mask : RGt(HU(vol, shp, p), threshold_hu)}
        valid_clusters == {c \in Label(sclerotic_mask) :
                                Cardinality(c) >= min_cluster_size}
        sclerotic_voxels_filtered == Cardinality(UNION valid_clusters)
    IN  [sclerotic_fraction |->
            IF Cardinality(shell_mask) > 0
            THEN Norm(sclerotic_voxels_filtered, Cardinality(shell_mask))
            ELSE R(0),
         sclerotic_volume_voxels |-> sclerotic_voxels_filtered,
         n_clusters |-> Cardinality(valid_clusters),
         reference_mean_hu |-> reference_bone_hu[1],
         reference_std_hu |-> reference_bone_hu[2],
         threshold_hu |-> threshold_hu,
         z_threshold |-> z_threshold]

\* anatomical.py, detect_retention_cysts_strict
anatomical_detect_retention_cysts_strict(vol, shp, cavity_mask, spacing, hu_range, min_area_mm2, max_area_mm2, wall_proximity_voxels) ==
    LET voxel_volume_mm3 == RMul(RMul(spacing[1], spacing[2]), spacing[3])
        components == LabelInOrder(
            CystCandidates(vol, shp, cavity_mask, hu_range, wall_proximity_voxels),
            shp)
        passed == SelectSeq(components,
                    LAMBDA c : PassesCystFilters(c, voxel_volume_mm3,
                                                 min_area_mm2, max_area_mm2))
        cysts == [i \in 1 .. Len(passed) |->
                    CystRecord(vol, shp, passed[i], voxel_volume_mm3)]
    IN  [cyst_count |-> Len(cysts), cysts |-> cysts]

(***************************************************************************)
(* Copies scenario: both detectors of sinus.pathology, then both of        *)
(* sinus.anatomical, run on the same cavity, shell and volume.             *)
(***************************************************************************)
\* Soft tissue inside and at the edge of the cyst window, and dense bone.
CopyBlobHU == {0, 50, 900}

\* Reference statistics with the thresholds 680 HU and 1400 HU for z = 2.
CopyReferences == { <<R(600), R(40)>>, <<R(1100), R(150)>> }

CopySpacings == { <<R(1), R(1), R(1)>>, <<R(2), R(2), R(2)>> }

\* No blob, or one of the blobs of the cyst scenario.
CopyBlobs == {{}} \cup {{b} : b \in DOMAIN CystBlobs}

InitCopies ==
    /\ pc = "raw"
    /\ shape = CystShape
    /\ \E cavity \in CystCavities, blobs \in CopyBlobs, hu \in CopyBlobHU,
          spacing \in CopySpacings, ref \in CopyReferences :
            LET cavity_mask == cavity \cup UNION {CystBlobs[b] : b \in blobs}
            IN  /\ volume = CystVolume(cavity, blobs, hu)
                /\ args = [cavity_mask |-> cavity_mask,
                           shell_mask |-> build_sinus_wall_shell(cavity_mask,
                                                                 CystShape, 2),
                           reference_bone_hu |-> ref,
                           z_threshold |-> R(2),
                           min_cluster_size |-> 30,
                           spacing |-> spacing,
                           hu_range |-> <<R(-50), R(50)>>,
                           min_area_mm2 |-> R(15),
                           max_area_mm2 |-> R(500),
                           wall_proximity_voxels |-> 3]
    /\ result = [pathology |-> NotRun, anatomical |-> NotRun]
    /\ CalIdle
    /\ ThrIdle
    /\ LmIdle
    /\ OmcIdle
    /\ ProviderIdle

\* from sinus.pathology import compute_sclerosis_zscore,
\* detect_retention_cysts_strict; both are called.
DetectWithPathology ==
    /\ pc = "raw"
    /\ result' = [result EXCEPT !.pathology =
            [sclerosis |->
                compute_sclerosis_zscore(volume, shape, args.shell_mask,
                    args.reference_bone_hu, args.z_threshold,
                    args.min_cluster_size),
             cysts |->
                detect_retention_cysts_strict(volume, shape, args.cavity_mask,
                    args.spacing, args.hu_range, args.min_area_mm2,
                    args.max_area_mm2, args.wall_proximity_voxels)]]
    /\ pc' = "pathology"
    /\ UNCHANGED <<shape, volume, args, calVars, thrVars, lmVars, omcVars,
                   provider>>

\* from sinus.anatomical import compute_sclerosis_zscore,
\* detect_retention_cysts_strict; both are called.
DetectWithAnatomical ==
    /\ pc = "pathology"
    /\ result' = [result EXCEPT !.anatomical =
            [sclerosis |->
                anatomical_compute_sclerosis_zscore(volume, shape,
                    args.shell_mask, args.reference_bone_hu, args.z_threshold,
                    args.min_cluster_size),
             cysts |->
                anatomical_detect_retention_cysts_strict(volume, shape,
                    args.cavity_mask, args.spacing, args.hu_range,
                    args.min_area_mm2, args.max_area_mm2,
                    args.wall_proximity_voxels)]]
    /\ pc' = "anatomical"
    /\ UNCHANGED <<shape, volume, args, calVars, thrVars, lmVars, omcVars,
                   provider>>

NextCopies == DetectWithPathology \/ DetectWithAnatomical

SpecCopies == InitCopies /\ [][NextCopies]_vars

(***************************************************************************)
(* Blob scenario: a ball of soft tissue lies in an air cavity inside a     *)
(* shell of bone and touches one wall of the cavity.                       *)
(***************************************************************************)
BlobShape == <<15, 15, 15>>

\* The cavity: everything but the outermost layer of voxels.
BlobCavity == BoxOf(1, 13, 1, 13, 1, 13)

\* The squared radius, in mm^2, of a sphere of 100 mm^3:
\* (3 * 100 / (4 * pi)) ^ (2/3) = 8.2899...
BlobRadiusSq == Norm(829, 100)

\* Isotropic voxel sizes of 1 mm, 0.8 mm and 0.75 mm.
BlobSpacings == {R(1), Norm(4, 5), Norm(3, 4)}

\* Densities inside the window (-50, 50).
BlobHU == {-20, 0, 20, 40}

\* The walls a ball can touch below the first fifth of the depth axis: the
\* axis (1 = z, 2 = y, 3 = x) and the end of it.
BlobWalls == {<<1, "high">>, <<2, "low">>, <<2, "high">>, <<3, "low">>,
              <<3, "high">>}

\* The voxels whose centre lies within the radius of the centre c.
Ball(c, spacing) ==
    {p \in BoxOf(c[1] - 4, c[1] + 4, c[2] - 4, c[2] + 4, c[3] - 4, c[3] + 4) :
        RLe(RMul(R((p[1] - c[1]) * (p[1] - c[1]) + (p[2] - c[2]) * (p[2] - c[2])
                     + (p[3] - c[3]) * (p[3] - c[3])),
                 RMul(spacing, spacing)),
            BlobRadiusSq)}

\* The number of voxels from the centre of the ball to its surface.
BlobReach(spacing) ==
    MaxOf({k \in 0 .. 4 : RLe(RMul(R(k * k), RMul(spacing, spacing)), BlobRadiusSq)})

\* The centre of the ball that touches the wall: in the middle of the cavity
\* on the other two axes.
BlobCentre(wall, spacing) ==
    [axis \in 1 .. 3 |->
        IF axis # wall[1] THEN 7
        ELSE IF wall[2] = "low" THEN 1 + BlobReach(spacing)
        ELSE 13 - BlobReach(spacing)]

\* Bone around the cavity, air in it, the ball refilled.
BlobVolume(wall, spacing, hu) ==
    LET blob == Ball(BlobCentre(wall, spacing), spacing)
    IN  [v \in Voxels(BlobShape) |->
            R(IF Unravel(BlobShape, v) \in blob THEN hu
              ELSE IF Unravel(BlobShape, v) \in BlobCavity THEN -1000 ELSE 700)]

InitBlob ==
    /\ pc = "raw"
    /\ shape = BlobShape
    /\ \E wall \in BlobWalls, spacing \in BlobSpacings, hu \in BlobHU :
            /\ volume = BlobVolume(wall, spacing, hu)
            /\ args = [cavity_mask |-> BlobCavity,
                       blob |-> Ball(BlobCentre(wall, spacing), spacing),
                       spacing |-> <<spacing, spacing, spacing>>,
                       hu_range |-> <<R(-50), R(50)>>,
                       min_area_mm2 |-> R(15),
                       max_area_mm2 |-> R(500),
                       wall_proximity_voxels |-> 3]
    /\ result = NotRun
    /\ CalIdle
    /\ ThrIdle
    /\ LmIdle
    /\ OmcIdle
    /\ ProviderIdle

DetectBlob ==
    /\ pc = "raw"
    /\ result' = detect_retention_cysts_strict(volume, shape, args.cavity_mask,
                    args.spacing, args.hu_range, args.min_area_mm2,
                    args.max_area_mm2, args.wall_proximity_voxels)
    /\ pc' = "detected"
    /\ UNCHANGED <<shape, volume, args, calVars, thrVars, lmVars, omcVars,
                   provider>>

NextBlob == DetectBlob

SpecBlob == InitBlob /\ [][NextBlob]_vars

(***************************************************************************)
(* ManualROIProvider (core/roi_provider.py): boxes placed by fractions of  *)
(* the shape.                                                              *)
(***************************************************************************)
\* _structure_map: the resolver of each structure name.
ManualStructureMap ==
    [sphenoid |-> "sphenoid", sphenoid_left |-> "sphenoid",
     sphenoid_right |-> "sphenoid", posterior_ethmoid |-> "posterior_ethmoid",
     posterior_ethmoid_left |-> "posterior_ethmoid",
     posterior_ethmoid_right |-> "posterior_ethmoid",
     skull_base |-> "skull_base"]

\* _get_sphenoid_roi, as <<start, stop>> pairs for z, y and x.
get_sphenoid_roi(shp) ==
    LET x_center == shp[3] \div 2
        x_margin == IntFrac(shp[3], 2, 10)
    IN  << <<IntFrac(shp[1], 30, 100), IntFrac(shp[1], 50, 100)>>,
           <<IntFrac(shp[2], 35, 100), IntFrac(shp[2], 55, 100)>>,
           <<x_center - x_margin, x_center + x_margin>> >>

\* _get_posterior_ethmoid_roi; slice(None) is the whole x axis.
get_posterior_ethmoid_roi(shp) ==
    << <<IntFrac(shp[1], 20, 100), IntFrac(shp[1], 45, 100)>>,
       <<IntFrac(shp[2], 40, 100), IntFrac(shp[2], 75, 100)>>,
       <<0, shp[3]>> >>

\* _get_skull_base_roi
get_skull_base_roi(shp) ==
    LET z_skull_base == IntFrac(shp[1], 25, 100)
        z_band_thickness == 15
    IN  << <<z_skull_base, z_skull_base + z_band_thickness>>,
           <<IntFrac(shp[2], 30, 100), IntFrac(shp[2], 55, 100)>>,
           <<IntFrac(shp[3], 30, 100), IntFrac(shp[3], 70, 100)>> >>

\* self._structure_map[structure_name](volume.shape)
ManualBounds(shp, structure_name) ==
    CASE ManualStructureMap[structure_name] = "sphenoid" -> get_sphenoid_roi(shp)
      [] ManualStructureMap[structure_name] = "posterior_ethmoid" ->
            get_posterior_ethmoid_roi(shp)
      [] ManualStructureMap[structure_name] = "skull_base" ->
            get_skull_base_roi(shp)

\* mask[bounds] = True, as the set of the true positions.
ManualMask(shp, structure_name) ==
    LET b == ManualBounds(shp, structure_name)
    IN  SliceOf(b[1], shp[1]) \X SliceOf(b[2], shp[2]) \X SliceOf(b[3], shp[3])

(***************************************************************************)
(* Box scenario: every region box of the engine is resolved for a shape.   *)
(***************************************************************************)
\* Lengths of the depth, height and width axes, from a single voxel to a
\* scan of 200 voxels.
BoxDepths == {1, 10, 62, 120, 200}
BoxHeights == {1, 10, 100, 200}
BoxWidths == {1, 2, 46, 120, 200}

\* The boxes resolved for a shape, each as <<start, stop>> pairs for z, y, x.
ResolvedBoxes(shp) ==
    [lund_mackay |-> [r \in Groups \X Sides |-> SinusRegionBounds(shp, r[1], r[2])],
     lund_mackay_omc |-> [side \in Sides |-> LmOmcBounds(shp, side)],
     omc |-> [c \in (DOMAIN OmcCandidates) \X OmcSides |->
                CorridorBounds(shp, OmcCandidates[c[1]], c[2])],
     manual |-> [name \in DOMAIN ManualStructureMap |-> ManualBounds(shp, name)]]

InitBoxes ==
    /\ pc = "raw"
    /\ shape \in BoxDepths \X BoxHeights \X BoxWidths
    /\ volume = NotRun
    /\ args = NotRun
    /\ result = NotRun
    /\ CalIdle
    /\ ThrIdle
    /\ LmIdle
    /\ OmcIdle
    /\ ProviderIdle

ResolveBoxes ==
    /\ pc = "raw"
    /\ result' = ResolvedBoxes(shape)
    /\ pc' = "resolved"
    /\ UNCHANGED <<shape, volume, args, calVars, thrVars, lmVars, omcVars,
                   provider>>

NextBoxes == ResolveBoxes

SpecBoxes == InitBoxes /\ [][NextBoxes]_vars

(***************************************************************************)
(* TotalSegmentatorROIProvider and create_roi_provider                     *)
(* (core/roi_provider.py).                                                 *)
(***************************************************************************)
\* _name_mapping: our structure names to the names of the segmentation files.
NameMapping ==
    [sphenoid |-> "sphenoid_sinus",
     sphenoid_left |-> "sphenoid_sinus_left",
     sphenoid_right |-> "sphenoid_sinus_right",
     maxillary_left |-> "maxillary_sinus_left",
     maxillary_right |-> "maxillary_sinus_right",
     frontal_left |-> "frontal_sinus_left",
     frontal_right |-> "frontal_sinus_right",
     ethmoid_left |-> "ethmoid_sinus_left",
     ethmoid_right |-> "ethmoid_sinus_right",
     skull |-> "skull",
     mandible |-> "mandible",
     maxilla |-> "maxilla",
     temporal_bone_left |-> "temporal_bone_left",
     temporal_bone_right |-> "temporal_bone_right",
     brain |-> "brain",
     brainstem |-> "brainstem",
     pituitary_gland |-> "pituitary_gland",
     trachea |-> "trachea",
     carotid_artery_left |-> "carotid_artery_left",
     carotid_artery_right |-> "carotid_artery_right"]

\* The two provider objects after construction; installed tells whether the
\* totalsegmentator package can be imported.
NewManualProvider == [kind |-> "manual"]

NewTotalSegmentatorProvider(installed) ==
    [kind |-> "totalsegmentator", installed |-> installed,
     cached_masks |-> <<>>, volume_hash |-> None]

\* create_roi_provider
create_roi_provider(provider_type, installed) ==
    CASE provider_type = "manual" -> NewManualProvider
      [] provider_type = "totalsegmentator" ->
            NewTotalSegmentatorProvider(installed)
      [] provider_type = "auto" ->
            IF installed THEN NewTotalSegmentatorProvider(installed)
            ELSE NewManualProvider

\* _hash_volume: the digest of volume[::10, ::10, ::10], as the sampled
\* values in order (equal digests for equal samples).
HashVolume(vol, shp) ==
    [hash |-> [p \in {q \in AllVoxels(shp) :
                        q[1] % 10 = 0 /\ q[2] % 10 = 0 /\ q[3] % 10 = 0} |->
                    HU(vol, shp, p)]]

\* The values a lookup returns, and a raised exception.
ReturnedNone == [returned |-> "None"]
ReturnedMask(mask) == [returned |-> "mask", mask |-> mask]
ReturnedBounds(bounds) == [returned |-> "bounds", bounds |-> bounds]
Raised(exception) == [raised |-> exception]

\* Lines 235-237: whether get_roi_mask runs the segmentation first.
NeedsSegmentation(prov, vol, shp) ==
    prov.kind = "totalsegmentator" /\ HashVolume(vol, shp) # prov.volume_hash

\* _run_segmentation raises ImportError when the package is missing; the
\* name plays no part.
SegmentationFails(prov, vol, shp, structure_name) ==
    /\ NeedsSegmentation(prov, vol, shp)
    /\ ~prov.installed

\* The provider after get_roi_mask, where segmented holds the masks a run of
\* the segmentation loads, by file name.
AfterLookup(prov, vol, shp, structure_name, segmented) ==
    IF prov.kind = "manual" THEN prov
    ELSE IF SegmentationFails(prov, vol, shp, structure_name) THEN prov
    ELSE IF NeedsSegmentation(prov, vol, shp)
    THEN [prov EXCEPT !.cached_masks = segmented,
                      !.volume_hash = HashVolume(vol, shp)]
    ELSE prov

\* get_roi_mask of either provider: the value returned, or the exception.
get_roi_mask(prov, vol, shp, structure_name, segmented) ==
    IF prov.kind = "manual"
    THEN IF structure_name \notin DOMAIN ManualStructureMap THEN ReturnedNone
         ELSE ReturnedMask(ManualMask(shp, structure_name))
    ELSE IF SegmentationFails(prov, vol, shp, structure_name)
    THEN Raised("ImportError")
    ELSE LET after == AfterLookup(prov, vol, shp, structure_name, segmented)
         IN  IF structure_name \notin DOMAIN NameMapping THEN ReturnedNone
             ELSE IF NameMapping[structure_name] \notin DOMAIN after.cached_masks
             THEN ReturnedNone
             ELSE ReturnedMask(after.cached_masks[NameMapping[structure_name]])

\* get_roi_bounds of either provider.
get_roi_bounds(prov, vol, shp, structure_name, segmented) ==
    IF prov.kind = "manual"
    THEN IF structure_name \notin DOMAIN ManualStructureMap THEN ReturnedNone
         ELSE ReturnedBounds(ManualBounds(shp, structure_name))
    ELSE LET got == get_roi_mask(prov, vol, shp, structure_name, segmented)
         IN  IF "raised" \in DOMAIN got THEN got
             ELSE IF got = ReturnedNone THEN ReturnedNone
             ELSE IF got.mask = {} THEN ReturnedNone
             ELSE ReturnedBounds(
                    [axis \in 1 .. 3 |->
                        <<MinOf({p[axis] : p \in got.mask}),
                          MaxOf({p[axis] : p \in got.mask}) + 1>>])

(***************************************************************************)
(* Provider scenario: structures are looked up in a provider while the     *)
(* scan changes.                                                           *)
(***************************************************************************)
ProviderShape == <<1, 1, 12>>

\* The voxel of soft tissue in an air volume; 12 stands for none.  Voxels 0
\* and 10 are part of the hashed sample, voxel 5 is not.
ProviderMarks == {0, 5, 10, 12}

ProviderVolume(mark) ==
    [v \in Voxels(ProviderShape) |-> R(IF v = mark + 1 THEN 0 ELSE -1000)]

\* Names known to both providers, to one of them, and to neither.
ProviderNames ==
    {"sphenoid", "skull_base", "maxillary_left", "skull", "inferior_turbinate"}

\* What a run of the segmentation loads: masks, possibly empty, for some of
\* the file names.
SegmentedMasks == { {}, {<<0, 0, 3>>, <<0, 0, 4>>} }

Segmentations ==
    UNION { [files -> SegmentedMasks] :
                files \in SUBSET {"sphenoid_sinus", "skull"} }

InitProvider ==
    /\ pc = "ready"
    /\ shape = ProviderShape
    /\ \E mark \in ProviderMarks : volume = ProviderVolume(mark)
    /\ \E provider_type \in {"manual", "totalsegmentator", "auto"},
          installed \in BOOLEAN :
            provider = create_roi_provider(provider_type, installed)
    /\ args = NotRun
    /\ result = NotRun
    /\ CalIdle
    /\ ThrIdle
    /\ LmIdle
    /\ OmcIdle

\* roi_provider.get_roi_mask(volume, spacing, structure_name)
GetRoiMask ==
    /\ pc = "ready"
    /\ \E structure_name \in ProviderNames, segmented \in Segmentations :
          /\ args' = [method |-> "get_roi_mask",
                      structure_name |-> structure_name]
          /\ result' = get_roi_mask(provider, volume, shape, structure_name,
                                    segmented)
          /\ provider' = AfterLookup(provider, volume, shape, structure_name,
                                     segmented)
    /\ UNCHANGED <<pc, shape, volume, calVars, thrVars, lmVars, omcVars>>

\* roi_provider.get_roi_bounds(volume, spacing, structure_name)
GetRoiBounds ==
    /\ pc = "ready"
    /\ \E structure_name \in ProviderNames, segmented \in Segmentations :
          /\ args' = [method |-> "get_roi_bounds",
                      structure_name |-> structure_name]
          /\ result' = get_roi_bounds(provider, volume, shape, structure_name,
                                      segmented)
          /\ provider' = AfterLookup(provider, volume, shape, structure_name,
                                     segmented)
    /\ UNCHANGED <<pc, shape, volume, calVars, thrVars, lmVars, omcVars>>

\* Another scan is loaded.
LoadVolume ==
    /\ pc = "ready"
    /\ \E mark \in ProviderMarks :
          /\ volume' = ProviderVolume(mark)
          /\ volume' # volume
    /\ UNCHANGED <<pc, shape, args, result, provider, calVars, thrVars,
                   lmVars, omcVars>>

NextProvider == GetRoiMask \/ GetRoiBounds \/ LoadVolume

SpecProvider == InitProvider /\ [][NextProvider]_vars

(***************************************************************************)
(* Cache scenario: masks are looked up in a TotalSegmentator provider      *)
(* while the scan changes and runs of the segmentation may raise.          *)
(***************************************************************************)
\* The files a run of the segmentation writes.
SegmenterFiles == {"skull", "sphenoid_sinus"}

\* The masks the external segmenter writes for a volume, a function of the
\* volume: here the voxels above -500 HU and the others.
SegmenterOutput(vol, shp) ==
    [f \in SegmenterFiles |->
        IF f = "skull"
        THEN {p \in AllVoxels(shp) : RGt(HU(vol, shp, p), R(-500))}
        ELSE {p \in AllVoxels(shp) : ~RGt(HU(vol, shp, p), R(-500))}]

\* Where a run raises: nowhere, in the call of totalsegmentator, or while
\* the written files are loaded.
SegmentationFailures == {"none", "totalsegmentator", "load"}

\* _run_segmentation: the provider it leaves and the exception it raises
\* ("no" for none).  The import fails without the package; a failure of
\* totalsegmentator comes before the cache is touched; a failure of nib.load
\* comes after _cached_masks.clear() and after the files in loaded.
run_segmentation(prov, vol, shp, failure, loaded) ==
    IF ~prov.installed THEN [provider |-> prov, raised |-> "ImportError"]
    ELSE IF failure = "totalsegmentator"
    THEN [provider |-> prov, raised |-> "RuntimeError"]
    ELSE IF failure = "load"
    THEN [provider |-> [prov EXCEPT !.cached_masks =
                            [f \in loaded |-> SegmenterOutput(vol, shp)[f]]],
          raised |-> "OSError"]
    ELSE [provider |-> [prov EXCEPT !.cached_masks = SegmenterOutput(vol, shp)],
          raised |-> "no"]

\* TotalSegmentatorROIProvider.get_roi_mask with the runs that raise: the
\* provider it leaves and what it returns or raises.  _volume_hash is
\* assigned after _run_segmentation returned.
TotalSegmentator_get_roi_mask(prov, vol, shp, structure_name, failure, loaded) ==
    LET current_hash == HashVolume(vol, shp)
        run == IF current_hash # prov.volume_hash
               THEN run_segmentation(prov, vol, shp, failure, loaded)
               ELSE [provider |-> prov, raised |-> "no"]
        after == IF run.raised = "no"
                 THEN [run.provider EXCEPT !.volume_hash = current_hash]
                 ELSE run.provider
    IN  [provider |-> after,
         outcome |->
            IF run.raised # "no" THEN Raised(run.raised)
            ELSE IF structure_name \notin DOMAIN NameMapping THEN ReturnedNone
            ELSE IF NameMapping[structure_name] \notin DOMAIN after.cached_masks
            THEN ReturnedNone
            ELSE ReturnedMask(after.cached_masks[NameMapping[structure_name]])]

CacheNames == {"skull", "sphenoid", "inferior_turbinate"}

\* The volume an observer saw segmented into the cache, or hashed.
SeenVolume(vol) == [volume |-> vol]

\* args holds the name of the last lookup and, for the observer, the volume
\* the cached masks were loaded from and the volume whose hash is stored.
InitCache ==
    /\ pc = "ready"
    /\ shape = ProviderShape
    /\ \E mark \in ProviderMarks : volume = ProviderVolume(mark)
    /\ \E installed \in BOOLEAN :
            provider = create_roi_provider("totalsegmentator", installed)
    /\ args = [structure_name |-> "", segmented_from |-> None,
               hashed_from |-> None]
    /\ result = NotRun
    /\ CalIdle
    /\ ThrIdle
    /\ LmIdle
    /\ OmcIdle

\* roi_provider.get_roi_mask(volume, spacing, structure_name)
CacheGetRoiMask ==
    /\ \E structure_name \in CacheNames, failure \in SegmentationFailures,
          loaded \in (SUBSET SegmenterFiles) \ {SegmenterFiles} :
          LET r == TotalSegmentator_get_roi_mask(provider, volume, shape,
                        structure_name, failure, loaded)
              ran == HashVolume(volume, shape) # provider.volume_hash
              cleared == ran /\ provider.installed /\ failure # "totalsegmentator"
              stored == ran /\ "raised" \notin DOMAIN r.outcome
          IN  /\ provider' = r.provider
              /\ result' = r.outcome
              /\ args' = [structure_name |-> structure_name,
                          segmented_from |-> IF cleared THEN SeenVolume(volume)
                                             ELSE args.segmented_from,
                          hashed_from |-> IF stored THEN SeenVolume(volume)
                                          ELSE args.hashed_from]
    /\ pc' = "returned"
    /\ UNCHANGED <<shape, volume, calVars, thrVars, lmVars, omcVars>>

\* Another scan is loaded.
CacheLoadVolume ==
    /\ \E mark \in ProviderMarks :
          /\ volume' = ProviderVolume(mark)
          /\ volume' # volume
    /\ pc' = "loaded"
    /\ UNCHANGED <<shape, args, result, provider, calVars, thrVars, lmVars,
                   omcVars>>

NextCache == CacheGetRoiMask \/ CacheLoadVolume

SpecCache == InitCache /\ [][NextCache]_vars

(***************************************************************************)
(* Deep sinus measurements: sinus/deep_sinus.py                            *)
(***************************************************************************)
\* volume[roi_bounds]: the indices the three slices select.
RoiSlices(shp, b) ==
    <<SliceOf(b[1], shp[1]), SliceOf(b[2], shp[2]), SliceOf(b[3], shp[3])>>

RoiVoxels(sl) == sl[1] \X sl[2] \X sl[3]

\* The position of a voxel of the region along an axis of the region.
RoiIndex(sl, p, axis) == p[axis] - MinOf(sl[axis])

\* A variant that measures the low corner of the volume, a quarter of each
\* axis, when the provider has no box.
RoiBoundsOrManual_corner(got, shp, structure_name) ==
    IF got = ReturnedNone
    THEN <<<<0, shp[1] \div 4>>, <<0, shp[2] \div 4>>, <<0, shp[3] \div 4>>>>
    ELSE got.bounds

\* if roi_bounds is None: the bounds of a new ManualROIProvider.
RoiBoundsOrManual(got, shp, structure_name) ==
    IF got = ReturnedNone THEN ManualBounds(shp, structure_name)
    ELSE got.bounds

\* The 3x3x3 structuring element placed with its low corner at p.
Block333(p) ==
    {<<p[1] + a, p[2] + b, p[3] + c>> : a \in 0 .. 2, b \in 0 .. 2, c \in 0 .. 2}

\* ndimage.binary_opening(mask, structure=np.ones((3, 3, 3)))
BinaryOpening333(mask) ==
    UNION {Block333(p) : p \in {q \in mask : Block333(q) \subseteq mask}}

\* voxels * voxel_volume_mm3 / 1000
VolumeMl(voxels, spacing) ==
    RDiv(RMul(R(voxels), RMul(RMul(spacing[1], spacing[2]), spacing[3])), R(1000))

\* measure_sphenoid_volume, from the resolved bounds on.
measure_sphenoid_volume(vol, shp, spacing, air_threshold, roi_bounds) ==
    LET sl == RoiSlices(shp, roi_bounds)
        air_mask == BinaryOpening333({p \in RoiVoxels(sl) :
                                        RLt(HU(vol, shp, p), air_threshold)})
        total_air_voxels == Cardinality(air_mask)
        total_volume_ml == VolumeMl(total_air_voxels, spacing)
        roi_midline == Cardinality(sl[3]) \div 2
        left_air == Cardinality({p \in air_mask : RoiIndex(sl, p, 3) < roi_midline})
        right_air == Cardinality({p \in air_mask : RoiIndex(sl, p, 3) >= roi_midline})
        roi_size == Cardinality(RoiVoxels(sl))
    IN  [sphenoid_volume_ml |-> total_volume_ml,
         left_volume_ml |-> VolumeMl(left_air, spacing),
         right_volume_ml |-> VolumeMl(right_air, spacing),
         pneumatization_grade |->
            IF RLt(total_volume_ml, Norm(1, 2)) THEN 0
            ELSE IF RLt(total_volume_ml, R(2)) THEN 1
            ELSE IF RLt(total_volume_ml, R(6)) THEN 2
            ELSE 3,
         air_fraction |-> IF roi_size > 0 THEN Norm(total_air_voxels, roi_size)
                          ELSE R(0)]

\* grade_opacification
GradeOpacification(air_frac) ==
    IF RGt(air_frac, Norm(1, 2)) THEN 0
    ELSE IF RGt(air_frac, Norm(1, 10)) THEN 1
    ELSE 2

\* The mean of the HU values of a non-empty set of voxels.
MeanHU(vol, shp, voxels) ==
    RDiv(SumOf([p \in voxels |-> HU(vol, shp, p)], voxels), R(Cardinality(voxels)))

\* check_sphenoid_opacification, from the resolved bounds on.  A side without
\* voxels has the air fraction 0 / 0.
check_sphenoid_opacification(vol, shp, air_threshold, roi_bounds) ==
    LET sl == RoiSlices(shp, roi_bounds)
        roi == RoiVoxels(sl)
        roi_midline == Cardinality(sl[3]) \div 2
        left_roi == {p \in roi : RoiIndex(sl, p, 3) < roi_midline}
        right_roi == {p \in roi : RoiIndex(sl, p, 3) >= roi_midline}
        AirFraction(side) ==
            IF side = {} THEN NaN
            ELSE Norm(Cardinality({p \in side : RLt(HU(vol, shp, p), air_threshold)}),
                      Cardinality(side))
        depth == Cardinality(sl[1])
        Tissue(slab) == {p \in slab : /\ RGt(HU(vol, shp, p), air_threshold)
                                      /\ RLt(HU(vol, shp, p), R(100))}
        inferior_tissue == Tissue({p \in roi : RoiIndex(sl, p, 1) >= depth - 5})
        superior_tissue == Tissue({p \in roi : RoiIndex(sl, p, 1) < 5})
    IN  [left_opacification_grade |-> GradeOpacification(AirFraction(left_roi)),
         right_opacification_grade |-> GradeOpacification(AirFraction(right_roi)),
         left_air_fraction |-> AirFraction(left_roi),
         right_air_fraction |-> AirFraction(right_roi),
         fluid_detected |->
            /\ Cardinality(inferior_tissue) > 10
            /\ Cardinality(superior_tissue) > 10
            /\ RGt(MeanHU(vol, shp, inferior_tissue),
                   RAdd(MeanHU(vol, shp, superior_tissue), R(20)))]

\* measure_posterior_ethmoid_volume, from the resolved bounds on: the depth
\* and height of the box, and two bands beside the midline.
measure_posterior_ethmoid_volume(vol, shp, spacing, air_threshold, roi_bounds) ==
    LET x == shp[3]
        x_center == x \div 2
        x_margin == IntFrac(x, 10, 100)
        zs == SliceOf(roi_bounds[1], shp[1])
        ys == SliceOf(roi_bounds[2], shp[2])
        left_roi == zs \X ys \X PySlice(x_center - x_margin - 10, x_center - 10, x)
        right_roi == zs \X ys \X PySlice(x_center + 10, x_center + x_margin + 10, x)
        left_air == BinaryOpening({p \in left_roi : RLt(HU(vol, shp, p), air_threshold)})
        right_air == BinaryOpening({p \in right_roi : RLt(HU(vol, shp, p), air_threshold)})
        total_roi_size == Cardinality(left_roi) + Cardinality(right_roi)
        total_air_voxels == Cardinality(left_air) + Cardinality(right_air)
    IN  [posterior_ethmoid_volume_ml |->
            RAdd(VolumeMl(Cardinality(left_air), spacing),
                 VolumeMl(Cardinality(right_air), spacing)),
         left_volume_ml |-> VolumeMl(Cardinality(left_air), spacing),
         right_volume_ml |-> VolumeMl(Cardinality(right_air), spacing),
         cell_count_estimate |->
            Cardinality(Label(left_air)) + Cardinality(Label(right_air)),
         air_fraction |-> IF total_roi_size > 0
                          THEN Norm(total_air_voxels, total_roi_size)
                          ELSE R(0)]

\* The longest run of consecutive values in a set of indices.
LongestRun(zs) ==
    MaxOf({0} \cup {k \in 1 .. Cardinality(zs) :
                        \E a \in zs : \A d \in 0 .. k - 1 : a + d \in zs})

\* What measure_skull_base_thickness returns without a measurement.
NoThickness ==
    [mean_thickness_mm |-> R(0), minimum_thickness_mm |-> R(0),
     bone_volume_ml |-> R(0), bone_hu_mean |-> R(0)]

\* The least of the samples with keys in ks.
MinSample(a, ks) == CHOOSE v \in {a[k] : k \in ks} : \A k \in ks : RLe(v, a[k])

\* measure_skull_base_thickness, from the resolved bounds on.
measure_skull_base_thickness(vol, shp, spacing, bone_threshold, roi_bounds) ==
    LET sl == RoiSlices(shp, roi_bounds)
        bone_mask == {p \in RoiVoxels(sl) : RGt(HU(vol, shp, p), bone_threshold)}
        Run(c) == LongestRun({p[1] : p \in {q \in bone_mask :
                                                q[2] = c[1] /\ q[3] = c[2]}})
        measured == {c \in sl[2] \X sl[3] : Run(c) >= 2}
        thicknesses == [c \in measured |-> RMul(R(Run(c)), spacing[1])]
    IN  IF Cardinality(bone_mask) < 10 THEN NoThickness
        ELSE IF measured = {} THEN NoThickness
        ELSE [mean_thickness_mm |->
                RDiv(SumOf(thicknesses, measured), R(Cardinality(measured))),
              minimum_thickness_mm |-> MinSample(thicknesses, measured),
              bone_volume_ml |-> VolumeMl(Cardinality(bone_mask), spacing),
              bone_hu_mean |-> MeanHU(vol, shp, bone_mask)]

\* The structure each deep-sinus measurement asks the provider for.
DeepSteps ==
    <<"sphenoid", "sphenoid_opacification", "posterior_ethmoid", "skull_base">>

DeepStructure(step) ==
    CASE step = "sphenoid" -> "sphenoid"
      [] step = "sphenoid_opacification" -> "sphenoid"
      [] step = "posterior_ethmoid" -> "posterior_ethmoid"
      [] step = "skull_base" -> "skull_base"

ReturnedValue(value) == [returned |-> "value", value |-> value]

\* A deep-sinus measurement from its resolved bounds on.
MeasureWithBounds(step, vol, shp, spacing, air_threshold, roi_bounds) ==
    CASE step = "sphenoid" ->
            measure_sphenoid_volume(vol, shp, spacing, air_threshold, roi_bounds)
      [] step = "sphenoid_opacification" ->
            check_sphenoid_opacification(vol, shp, air_threshold, roi_bounds)
      [] step = "posterior_ethmoid" ->
            measure_posterior_ethmoid_volume(vol, shp, spacing, air_threshold,
                                             roi_bounds)
      [] step = "skull_base" ->
            measure_skull_base_thickness(vol, shp, spacing, R(200), roi_bounds)

\* One deep-sinus measurement with a provider: z, y, x = volume.shape raises
\* ValueError unless the volume has three axes, then the provider is asked
\* for the bounds, then the region is measured.
DeepMeasurement(step, prov, vol, shp, spacing, air_threshold, segmented) ==
    IF Len(shp) # 3 THEN Raised("ValueError")
    ELSE LET got == get_roi_bounds(prov, vol, shp, DeepStructure(step), segmented)
         IN  IF "raised" \in DOMAIN got THEN got
             ELSE ReturnedValue(
                    MeasureWithBounds(step, vol, shp, spacing, air_threshold,
                        RoiBoundsOrManual(got, shp, DeepStructure(step))))

\* The provider after the measurement.
ProviderAfter(step, prov, vol, shp, segmented) ==
    IF Len(shp) # 3 THEN prov
    ELSE AfterLookup(prov, vol, shp, DeepStructure(step), segmented)

RECURSIVE ProviderBefore(_, _, _, _, _)
\* The provider when step k of DeepSteps starts.
ProviderBefore(k, prov, vol, shp, segmented) ==
    IF k = 1 THEN prov
    ELSE ProviderAfter(DeepSteps[k - 1],
                       ProviderBefore(k - 1, prov, vol, shp, segmented),
                       vol, shp, segmented)

\* HeadCTAnalyzer.analyze_deep_sinuses: the four measurements, each in its
\* own try block; a measurement that raised is reported as None.
analyze_deep_sinuses(prov, vol, shp, spacing, segmented) ==
    [k \in 1 .. Len(DeepSteps) |->
        LET out == DeepMeasurement(DeepSteps[k],
                                   ProviderBefore(k, prov, vol, shp, segmented),
                                   vol, shp, spacing, R(-400), segmented)
        IN  IF "raised" \in DOMAIN out THEN ReturnedNone ELSE out]

\* The measurement calls of run_comprehensive_analysis in their order.
ComprehensiveSteps ==
    <<"calibration", "thresholds", "omc", "sclerosis", "cysts", "lund_mackay",
      "sphenoid", "sphenoid_opacification", "posterior_ethmoid", "skull_base">>

\* A step of run_comprehensive_analysis: each unpacks volume.shape into
\* z, y, x; the deep-sinus measurements use the manual provider.  The values
\* of the first six steps are those of the analyzers above.
ComprehensiveStep(step, vol, shp, spacing, air_threshold) ==
    IF Len(shp) # 3 THEN Raised("ValueError")
    ELSE IF step \in {DeepSteps[k] : k \in DOMAIN DeepSteps}
    THEN DeepMeasurement(step, NewManualProvider, vol, shp, spacing,
                         air_threshold, <<>>)
    ELSE ReturnedValue(step)

\* run_comprehensive_analysis: no call is in a try block, so the first
\* exception leaves the function and nothing is reported.
run_comprehensive_analysis(vol, shp, spacing, air_threshold) ==
    LET outs == [k \in DOMAIN ComprehensiveSteps |->
                    ComprehensiveStep(ComprehensiveSteps[k], vol, shp, spacing,
                                      air_threshold)]
        failed == {k \in DOMAIN outs : "raised" \in DOMAIN outs[k]}
    IN  IF failed = {} THEN [returned |-> "results", results |-> outs]
        ELSE outs[MinOf(failed)]

(***************************************************************************)
(* Deep sinus scenario: a small volume is analysed by HeadCTAnalyzer with  *)
(* one of the providers, or by run_comprehensive_analysis.                 *)
(***************************************************************************)
DeepShape == <<30, 15, 30>>

\* The shape of a volume with a fourth axis.
SeriesShape == <<2, 2, 2, 2>>

\* Volumes of one density; soft tissue of low density in the slices below
\* 10 and of high density from 10 on; air on the left of bone; bone around a
\* centre of air.
DeepVolumeKinds == {"air", "tissue", "bone", "layers", "halves", "centre"}

DeepVolume(kind) ==
    [v \in Voxels(DeepShape) |->
        LET p == Unravel(DeepShape, v)
        IN  R(CASE kind = "air" -> -1000
                [] kind = "tissue" -> 20
                [] kind = "bone" -> 700
                [] kind = "layers" -> IF p[1] < 10 THEN -300 ELSE 50
                [] kind = "halves" -> IF p[3] < 15 THEN -1000 ELSE 700
                [] kind = "centre" ->
                        IF \A axis \in 1 .. 3 :
                                p[axis] \in 5 .. DeepShape[axis] - 5
                        THEN -1000
                        ELSE 700)]

SeriesVolume == [v \in 1 .. 16 |-> R(-1000)]

\* Voxel sizes of 1 mm and 10 mm.
DeepSpacings == {<<R(1), R(1), R(1)>>, <<R(10), R(10), R(10)>>}

\* What a run of the segmentation loads: no file for the sphenoid sinus, an
\* empty mask, or a box.
DeepSegmentations ==
    { <<>>, [f \in {"sphenoid_sinus"} |-> {}],
      [f \in {"sphenoid_sinus"} |-> BoxOf(2, 12, 2, 12, 2, 12)] }

InitDeep ==
    /\ pc = "ready"
    /\ \/ /\ shape = DeepShape
          /\ \E kind \in DeepVolumeKinds : volume = DeepVolume(kind)
       \/ /\ shape = SeriesShape
          /\ volume = SeriesVolume
    /\ \E provider_type \in {"manual", "totalsegmentator", "auto"},
          installed \in BOOLEAN :
            provider = create_roi_provider(provider_type, installed)
    /\ \E spacing \in DeepSpacings : args = [spacing |-> spacing]
    /\ result = NotRun
    /\ CalIdle
    /\ ThrIdle
    /\ LmIdle
    /\ OmcIdle

\* HeadCTAnalyzer(nifti_path, roi_provider).analyze_deep_sinuses()
AnalyzeDeepSinuses ==
    /\ pc = "ready"
    /\ \E segmented \in DeepSegmentations :
          /\ result' = [returned |-> "results",
                        results |-> analyze_deep_sinuses(provider, volume, shape,
                                                         args.spacing, segmented)]
          /\ provider' = ProviderBefore(Len(DeepSteps) + 1, provider, volume,
                                        shape, segmented)
    /\ pc' = "analyze_deep_sinuses"
    /\ UNCHANGED <<shape, volume, args, calVars, thrVars, lmVars, omcVars>>

\* run_comprehensive_analysis(nifti_path)
RunComprehensiveAnalysis ==
    /\ pc = "ready"
    /\ result' = run_comprehensive_analysis(volume, shape, args.spacing, R(-400))
    /\ pc' = "run_comprehensive_analysis"
    /\ UNCHANGED <<shape, volume, args, provider, calVars, thrVars, lmVars,
                   omcVars>>

NextDeep == AnalyzeDeepSinuses \/ RunComprehensiveAnalysis

SpecDeep == InitDeep /\ [][NextDeep]_vars

(***************************************************************************)
(* Claims about the calibrator, under SpecCal.                             *)
(***************************************************************************)
\* The coordinates of a voxel of the buffer.
ZOf(shp, p) == (p - 1) \div (shp[2] * shp[3])
YOf(shp, p) == ((p - 1) \div shp[3]) % shp[2]
XOf(shp, p) == (p - 1) % shp[3]

\* The runs of calibrate_volume a state holds: <<input, output, metadata>>.
CalRuns ==
    (IF pc \in {"calibrated", "recalibrated"}
     THEN {<<volume, calibrated, metadata>>} ELSE {})
    \cup (IF pc = "recalibrated"
          THEN {<<calibrated, recalibrated, remetadata>>} ELSE {})

\* C2: calibration is idempotent: calibrating the volume calibrate_volume
\* returned reports applied = false.
C2_Idempotent == pc = "recalibrated" => remetadata.applied = FALSE

\* |anchor.delta| < 50 for both anchors, i.e. max(|delta|) < threshold.
BothDeltasBelow(m, t) ==
    /\ RLt(RAbs(m.air_anchor.delta), R(t))
    /\ RLt(RAbs(m.bone_anchor.delta), R(t))

C4_FitMapsAnchors ==
    \A r \in CalRuns :
        LET m == r[3]
            c == m.correction
            Line(v) == RAdd(RMul(c.slope, v), c.intercept)
        IN  (c # None /\ c.apply) =>
                /\ Line(m.air_anchor.measured_hu) = m.air_anchor.expected_hu
                /\ Line(m.bone_anchor.measured_hu) = m.bone_anchor.expected_hu

\* An applied correction that moves both anchors.
C4_Witness ==
    /\ pc = "calibrated"
    /\ metadata.applied
    /\ metadata.air_anchor.delta # R(0)
    /\ metadata.bone_anchor.delta # R(0)
    /\ metadata.correction.slope # R(1)

\* C5: apply_hu_correction leaves its input as it was; an applied correction
\* returns slope * v + intercept for every voxel v, and an absent or
\* unapplied one returns the input volume.
C5_ApplyIsPure ==
    [][ /\ pc = "raw" =>
            /\ volume' = volume
            /\ LET c == metadata'.correction
               IN  IF c # None /\ c.apply
                   THEN \A p \in DOMAIN volume :
                            calibrated'[p] =
                                RAdd(RMul(c.slope, volume[p]), c.intercept)
                   ELSE calibrated' = volume
        /\ pc = "calibrated" =>
            /\ calibrated' = calibrated
            /\ LET c == remetadata'.correction
               IN  IF c # None /\ c.apply
                   THEN \A p \in DOMAIN calibrated :
                            recalibrated'[p] =
                                RAdd(RMul(c.slope, calibrated[p]), c.intercept)
                   ELSE recalibrated' = calibrated ]_vars

\* A correction was applied and changed a voxel, and the input is as it was.
C5_Witness ==
    /\ pc = "calibrated"
    /\ metadata.applied
    /\ \E p \in DOMAIN volume : calibrated[p] # volume[p]
    /\ \E p \in DOMAIN volume : volume[p] = R(1010)

\* The voxels within the margin of a face, by their coordinates.
NearDepthFront(shp, p) == ZOf(shp, p) < AirMargin
NearDepthBack(shp, p) == ZOf(shp, p) >= shp[1] - AirMargin
NearHeightFront(shp, p) == YOf(shp, p) < AirMargin
NearHeightBack(shp, p) == YOf(shp, p) >= shp[2] - AirMargin
NearWidthFront(shp, p) == XOf(shp, p) < AirMargin
NearWidthBack(shp, p) == XOf(shp, p) >= shp[3] - AirMargin

\* The six-face margin shell.
SixFaceShell(shp) ==
    {p \in Voxels(shp) :
        \/ NearDepthFront(shp, p) \/ NearDepthBack(shp, p)
        \/ NearHeightFront(shp, p) \/ NearHeightBack(shp, p)
        \/ NearWidthFront(shp, p) \/ NearWidthBack(shp, p)}

\* m is a median of the samples of a: at most half lie below it and at most
\* half above it, and it is a sample when their number is odd.
IsMedianOf(m, a) ==
    /\ 2 * Cardinality({s \in DOMAIN a : RLt(a[s], m)}) <= Size(a)
    /\ 2 * Cardinality({s \in DOMAIN a : RGt(a[s], m)}) <= Size(a)
    /\ Size(a) % 2 = 1 => \E s \in DOMAIN a : a[s] = m

\* C6 as the spec states it: the candidates are the voxels below -800 HU of
\* the margin shell at all six faces, and the anchor is their median.
C6_SixFaces ==
    \A r \in CalRuns :
        LET vol == r[1]
            a == r[3].air_anchor
            cands == [p \in {q \in SixFaceShell(shape) : RLt(vol[q], R(-800))}
                        |-> vol[p]]
        IN  IF Size(cands) = 0 THEN IsNaN(a.measured_hu)
            ELSE a.n_samples = Size(cands) /\ IsMedianOf(a.measured_hu, cands)

\* C6, amended: the candidates are the voxels below -800 HU within the margin
\* of the four depth and height faces, a voxel counting once for every such
\* face it is near; the anchor is the median of those samples, and NaN when
\* there are none.  Voxels near a width face only are not sampled.
C6_FourFaces ==
    \A r \in CalRuns :
        LET vol == r[1]
            a == r[3].air_anchor
            air == {p \in Voxels(shape) : RLt(vol[p], R(-800))}
            cands ==
                [s \in {<<1, p>> : p \in {q \in air : NearDepthFront(shape, q)}}
                   \cup {<<2, p>> : p \in {q \in air : NearDepthBack(shape, q)}}
                   \cup {<<3, p>> : p \in {q \in air : NearHeightFront(shape, q)}}
                   \cup {<<4, p>> : p \in {q \in air : NearHeightBack(shape, q)}}
                 |-> vol[s[2]]]
        IN  IF Size(cands) = 0 THEN IsNaN(a.measured_hu) /\ ~a.pass
            ELSE a.n_samples = Size(cands) /\ IsMedianOf(a.measured_hu, cands)

\* Air at a width face only is not sampled, and the corner voxel is sampled
\* twice: -1000 twice and -960 NFace times.
C6_Witness ==
    /\ pc = "calibrated"
    /\ shape = BigShape
    /\ \A p \in WidthPatch(shape) : volume[p] = R(-1000)
    /\ \A p \in CornerPatch(shape) : volume[p] = R(-1000)
    /\ \A p \in FacePatch(shape) : volume[p] = R(-960)
    /\ metadata.air_anchor.n_samples = 2 + NFace

\* No voxel of the sampled region qualifies.
NoAirVoxel(vol, shp) ==
    \A p \in Voxels(shp) :
        (\/ NearDepthFront(shp, p) \/ NearDepthBack(shp, p)
         \/ NearHeightFront(shp, p) \/ NearHeightBack(shp, p))
            => ~RLt(vol[p], R(-800))

NoBoneVoxel(vol, shp) == \A p \in PalateRoi(shp) : ~RGt(vol[p], R(900))

\* C7: with no qualifying voxel a detector returns pass = false and
\* measured_hu = NaN, and calibrate_volume returns its input unchanged with
\* applied = false and no correction.
C7_InsufficientData ==
    \A r \in CalRuns :
        LET vol == r[1]
            m == r[3]
        IN  /\ NoAirVoxel(vol, shape) =>
                ~m.air_anchor.pass /\ IsNaN(m.air_anchor.measured_hu)
            /\ NoBoneVoxel(vol, shape) =>
                ~m.bone_anchor.pass /\ IsNaN(m.bone_anchor.measured_hu)
            /\ (NoAirVoxel(vol, shape) \/ NoBoneVoxel(vol, shape)) =>
                r[2] = vol /\ m.applied = FALSE /\ m.correction = None

\* A volume with bone in the palate box and no air in the sampled slabs.
C7_Witness ==
    /\ pc = "calibrated"
    /\ NoAirVoxel(volume, shape)
    /\ ~NoBoneVoxel(volume, shape)
    /\ metadata.bone_anchor.pass
    /\ calibrated = volume

(***************************************************************************)
(* Claims about the thresholder, under SpecThr.                            *)
(***************************************************************************)
\* The centre of bin i of 140 bins of width 10 from -1000 HU.
CentreHU(i) == 10 * i - 995

\* The samples of the region of interest that fall in bin i: the HU values in
\* [centre - 5, centre + 5), and 400 HU itself in the last bin.
CountAround(roi, i) ==
    Cardinality({s \in DOMAIN roi :
        \/ /\ RLe(R(CentreHU(i) - 5), roi[s])
           /\ RLt(roi[s], R(CentreHU(i) + 5))
        \/ i = 139 /\ roi[s] = R(400)})

\* C8: air_peak is the centre of a fullest bin among those centred below
\* -600, tissue_peak the centre of a fullest bin among those centred in
\* (-200, 200), air_threshold the centre of an emptiest bin strictly between
\* the two peaks; -400, -900 and 0 stand in when there is no such bin.
C8_PeaksAndValley ==
    pc = "thresholded" =>
        LET roi == ThresholdRoi(volume, shape, sinus_mask)
            n == [i \in 0 .. 139 |-> CountAround(roi, i)]
            airBins == {i \in 0 .. 139 : CentreHU(i) < -600}
            tissueBins == {i \in 0 .. 139 : -200 < CentreHU(i) /\ CentreHU(i) < 200}
            between == {i \in 0 .. 139 :
                            /\ RLt(thresholds.air_peak, R(CentreHU(i)))
                            /\ RLt(R(CentreHU(i)), thresholds.tissue_peak)}
        IN  /\ IF airBins = {} THEN thresholds.air_peak = R(-900)
               ELSE \E i \in airBins :
                        /\ thresholds.air_peak = R(CentreHU(i))
                        /\ \A j \in airBins : n[j] <= n[i]
            /\ IF tissueBins = {} THEN thresholds.tissue_peak = R(0)
               ELSE \E i \in tissueBins :
                        /\ thresholds.tissue_peak = R(CentreHU(i))
                        /\ \A j \in tissueBins : n[j] <= n[i]
            /\ IF between = {} THEN thresholds.air_threshold = R(-400)
               ELSE \E i \in between :
                        /\ thresholds.air_threshold = R(CentreHU(i))
                        /\ \A j \in between : n[j] >= n[i]

\* Peaks away from the first bins, with a populated bin in the valley.
C8_Witness ==
    /\ pc = "thresholded"
    /\ thresholds.air_peak = R(-695)
    /\ thresholds.tissue_peak = R(-145)
    /\ thresholds.air_threshold = R(-685)
    /\ \E s \in DOMAIN ThresholdRoi(volume, shape, sinus_mask) :
            ThresholdRoi(volume, shape, sinus_mask)[s] = R(-400)

(***************************************************************************)
(* Claims about the clinical scorer                                        *)
(***************************************************************************)
ScoreRuns == pc = "scored"

IsLmSoftTissue(hu, cons) ==
    RGt(R(hu), LmSoftTissue(cons)[1]) /\ RLt(R(hu), LmSoftTissue(cons)[2])

AllAir(shp) == [p \in Voxels(shp) |-> R(-1000)]

\* C1: when one maxillary region box is entirely filled with voxels inside
\* the soft-tissue range of the criteria in use and the rest of the volume is
\* air, that region scores 2, totals.lm20 is positive, and the other nine
\* regions score what they score for the all-air volume.
C1_FilledMaxillary ==
    ScoreRuns =>
        \A sd \in Sides, fill \in LmFillHU :
            (/\ IsLmSoftTissue(fill, conservative)
             /\ volume = LmVolume(shape, -1000, "maxillary", sd, fill))
            => LET all_air == compute_lund_mackay(AllAir(shape), shape,
                                                  conservative)
               IN  /\ lund_mackay.by_region["maxillary"][sd] = 2
                   /\ lund_mackay.totals.lm20 > 0
                   /\ \A g \in Groups, o \in Sides :
                        <<g, o>> # <<"maxillary", sd>> =>
                            lund_mackay.by_region[g][o]
                                = all_air.by_region[g][o]

(***************************************************************************)
(* Claims about the OMC patency measurement                                *)
(***************************************************************************)
MeasureRuns == pc = "measured"

CandidateNames == <<"anterior_superior", "mid_anterior", "posterior_mid">>

\* What the loop body computes for candidate k of a side on the volume.
Evaluated(side, k) ==
    EvaluateCandidate(volume, shape, OmcCandidates[k], side, omc_threshold)

\* The candidates of a side that were evaluated to a positive air fraction.
PositiveCandidates(side) ==
    {k \in DOMAIN OmcCandidates :
        /\ Evaluated(side, k) # Skipped
        /\ RGt(Evaluated(side, k).air_fraction, R(0))}

\* Candidate k has the highest air fraction among ks, the earlier ones of ks
\* having a strictly lower one.
WinsAmong(side, k, ks) ==
    /\ k \in ks
    /\ \A j \in ks :
        /\ RLe(Evaluated(side, j).air_fraction, Evaluated(side, k).air_fraction)
        /\ j < k => RLt(Evaluated(side, j).air_fraction,
                        Evaluated(side, k).air_fraction)

\* The result of a side reports candidate k and the values computed for it.
Reports(side, k) ==
    /\ omc[side].best_candidate = CandidateNames[k]
    /\ omc[side].air_fraction = Evaluated(side, k).air_fraction
    /\ omc[side].classification = Evaluated(side, k).classification
    /\ omc[side].confidence = Evaluated(side, k).confidence

\* C9 as stated: for each side the candidates are taken in the order
\* anterior_superior, mid_anterior, posterior_mid, and the result always
\* reports one of these three names, that of the evaluated candidate with the
\* highest air fraction (the first one on a tie), with its air fraction,
\* classification and confidence.
C9_AlwaysACandidate ==
    MeasureRuns =>
        /\ \A k \in DOMAIN OmcCandidates : OmcCandidates[k].name = CandidateNames[k]
        /\ \A side \in OmcSides :
            \E k \in DOMAIN OmcCandidates :
                /\ WinsAmong(side, k, {j \in DOMAIN OmcCandidates :
                                            Evaluated(side, j) # Skipped})
                /\ Reports(side, k)

\* C9: for each side the candidates are taken in the order anterior_superior,
\* mid_anterior, posterior_mid.  When some candidate was evaluated to a
\* positive air fraction, the result reports the one with the highest air
\* fraction (the first one on a tie) by name, with its air fraction,
\* classification and confidence; otherwise it reports best_candidate 'none',
\* air fraction 0, 'Obstructed' and confidence 1.
C9_BestPositiveCandidate ==
    MeasureRuns =>
        /\ \A k \in DOMAIN OmcCandidates : OmcCandidates[k].name = CandidateNames[k]
        /\ \A side \in OmcSides :
            IF PositiveCandidates(side) = {}
            THEN /\ omc[side].best_candidate = "none"
                 /\ omc[side].air_fraction = R(0)
                 /\ omc[side].classification = "Obstructed"
                 /\ omc[side].confidence = OneMinusSqrt(R(0))
            ELSE \E k \in PositiveCandidates(side) :
                    /\ WinsAmong(side, k, PositiveCandidates(side))
                    /\ Reports(side, k)

\* On the left the first and the third candidate tie at a positive air
\* fraction with different confidences and the first is reported; on the
\* right no candidate is evaluated and 'none' is reported.
C9_Witness ==
    /\ MeasureRuns
    /\ Evaluated("left", 1) # Skipped
    /\ Evaluated("left", 3) # Skipped
    /\ RGt(Evaluated("left", 1).air_fraction, R(0))
    /\ Evaluated("left", 1).air_fraction = Evaluated("left", 3).air_fraction
    /\ Evaluated("left", 1).confidence # Evaluated("left", 3).confidence
    /\ omc["left"].best_candidate = "anterior_superior"
    /\ \A k \in DOMAIN OmcCandidates : Evaluated("right", k) = Skipped
    /\ omc["right"].best_candidate = "none"

\* A later candidate with a strictly higher air fraction is reported.
C9_Witness_later ==
    /\ MeasureRuns
    /\ Evaluated("left", 1) # Skipped
    /\ omc["left"].best_candidate = "posterior_mid"

C10_Witness_patent ==
    /\ MeasureRuns
    /\ \E side \in OmcSides : omc[side].classification = "Patent"

\* No corridor of either side holds a voxel below the air threshold.
NoAirInCorridors ==
    \A side \in OmcSides, k \in DOMAIN OmcCandidates :
        AirMask(volume, shape, Corridor(shape, OmcCandidates[k], side),
                omc_threshold) = {}

\* The confidence 1 - sqrt(q) is a number of [0, 1].
ConfidenceInUnitInterval(c) ==
    /\ IsFinite(c.one_minus_sqrt_of)
    /\ RLe(R(0), c.one_minus_sqrt_of)
    /\ RLe(c.one_minus_sqrt_of, R(1))

\* C11: when no OMC corridor of either side holds a voxel below the air
\* threshold, the measurement returns a result that reports 'Obstructed' with
\* air fraction 0 on the left and on the right, with a confidence that is a
\* number of [0, 1].
C11_NoAirObstructed ==
    (MeasureRuns /\ NoAirInCorridors) =>
        \A side \in OmcSides :
            /\ omc[side].classification = "Obstructed"
            /\ omc[side].air_fraction = R(0)
            /\ omc[side].air_fraction_pct = R(0)
            /\ ConfidenceInUnitInterval(omc[side].confidence)

\* A volume with voxels of -500 HU inside the corridors, none of them below
\* the threshold -685, was measured.
C11_Witness ==
    /\ MeasureRuns
    /\ NoAirInCorridors
    /\ omc_threshold = R(-685)
    /\ \E p \in OmcBoxes[2] : volume[At(shape, p[1], p[2], p[3])] = R(-500)
    /\ omc["left"].classification = "Obstructed"
    /\ omc["right"].classification = "Obstructed"

(***************************************************************************)
(* Claims about the analyzers on a uniform volume                          *)
(***************************************************************************)
AllAnalyzed == pc = "analyzed"

\* Every voxel is air: below the air threshold of the run and below the air
\* thresholds of both Lund-Mackay criteria.
FullyAir ==
    \A v \in Voxels(shape) :
        RLt(volume[v], omc_threshold) /\ RLt(volume[v], R(-500))

\* C12: for a volume of air only, the analyzers report OMC 'Patent' on the
\* left and on the right, sclerotic_fraction 0, cyst_count 0 and totals.lm20 0.
C12_FullyAir ==
    (AllAnalyzed /\ FullyAir) =>
        /\ omc["left"].classification = "Patent"
        /\ omc["right"].classification = "Patent"
        /\ result.sclerosis.sclerotic_fraction = R(0)
        /\ result.cysts.cyst_count = 0
        /\ lund_mackay.totals.lm20 = 0

(***************************************************************************)
(* Claims about _opacification_score                                       *)
(***************************************************************************)
\* lo <= f < hi
InHalfOpen(f, lo, hi) == RLe(lo, f) /\ RLt(f, hi)

C13_Witness_conservative ==
    /\ pc = "scored"
    /\ args = [opac_frac |-> Norm(7, 10), conservative |-> TRUE]
    /\ result = 2

(***************************************************************************)
(* Claims about the Lund-Mackay OMC score and totals                       *)
(***************************************************************************)
\* The air voxels of the Lund-Mackay OMC box of a side, and the voxels of it.
OmcBoxAir(side) ==
    Cardinality({p \in LmOmcBox(shape, side) :
                    RLt(volume[p], LmAirThreshold(conservative))})

OmcBoxSize(side) == Cardinality(LmOmcBox(shape, side))

\* The cutoff in per cent: 60 standard, 70 conservative.
CutoffPct == IF conservative THEN 70 ELSE 60

\* The air fraction of the box reaches the cutoff (an empty box has none).
ReachesCutoff(side) ==
    /\ OmcBoxSize(side) > 0
    /\ 100 * OmcBoxAir(side) >= CutoffPct * OmcBoxSize(side)

\* C14: the Lund-Mackay OMC score of a side is 0 when the air fraction of the
\* side's fixed box is at least the cutoff (60% standard, 70% conservative)
\* and 2 otherwise, never 1.
C14_OmcScoreBinary ==
    ScoreRuns =>
        \A side \in Sides :
            /\ lund_mackay.omc[side] \in {0, 2}
            /\ lund_mackay.omc[side] = 0 <=> ReachesCutoff(side)

\* The left box at exactly 60% air scored 0 under the standard criteria while
\* the right box without air scored 2.
C14_Witness ==
    /\ ScoreRuns
    /\ ~conservative
    /\ OmcBoxSize("L") = 10
    /\ OmcBoxAir("L") = 6
    /\ lund_mackay.omc["L"] = 0
    /\ OmcBoxAir("R") = 0
    /\ lund_mackay.omc["R"] = 2

\* The left box at exactly 70% air scored 0 under the conservative criteria,
\* the right box at 60% scored 2.
C14_Witness_conservative ==
    /\ ScoreRuns
    /\ conservative
    /\ OmcBoxAir("L") = 7
    /\ lund_mackay.omc["L"] = 0
    /\ OmcBoxAir("R") = 6
    /\ lund_mackay.omc["R"] = 2

\* The sum of the five regional scores of a side.
SideSum(side) ==
    lund_mackay.by_region["frontal"][side]
        + lund_mackay.by_region["ant_ethmoid"][side]
        + lund_mackay.by_region["post_ethmoid"][side]
        + lund_mackay.by_region["maxillary"][side]
        + lund_mackay.by_region["sphenoid"][side]

\* C15: totals.lm20 is the sum of the ten regional scores, totals.lm24 is
\* lm20 plus omc.L plus omc.R, totals.left and totals.right are the sums of
\* the side's five regional scores and its OMC score, 0 <= lm20 <= 20 and
\* 0 <= lm24 <= 24.
C15_Totals ==
    ScoreRuns =>
        LET t == lund_mackay.totals
        IN  /\ t.lm20 = SideSum("L") + SideSum("R")
            /\ t.lm24 = t.lm20 + lund_mackay.omc["L"] + lund_mackay.omc["R"]
            /\ t.left = SideSum("L") + lund_mackay.omc["L"]
            /\ t.right = SideSum("R") + lund_mackay.omc["R"]
            /\ t.lm24 = t.left + t.right
            /\ t.lm20 \in 0 .. 20
            /\ t.lm24 \in 0 .. 24

\* A result whose two OMC scores differ: lm24 = 2, left = 0, right = 2.
C15_Witness ==
    /\ ScoreRuns
    /\ lund_mackay.omc["L"] = 0
    /\ lund_mackay.omc["R"] = 2
    /\ lund_mackay.totals.lm24 = 2
    /\ lund_mackay.totals.left = 0
    /\ lund_mackay.totals.right = 2

(***************************************************************************)
(* Claims about the sclerosis detector                                     *)
(***************************************************************************)
\* C16: for the same volume, shell mask, reference statistics and
\* min_cluster_size and z1 <= z2, the sclerotic_fraction reported with z2 is
\* at most the one reported with z1.
C16_MonotoneInZ ==
    pc = "detected" =>
        RLe(result.with_z2.sclerotic_fraction, result.with_z1.sclerotic_fraction)

\* Raising z split a cluster: fewer voxels pass the threshold and a part of
\* them no longer reaches min_cluster_size, yet some sclerosis remains.
C16_Witness ==
    /\ pc = "detected"
    /\ args.min_cluster_size > 1
    /\ RLt(R(0), result.with_z2.sclerotic_fraction)
    /\ RLt(result.with_z2.sclerotic_fraction, result.with_z1.sclerotic_fraction)
    /\ Cardinality({p \in args.shell_mask :
            RGt(HU(volume, shape, p), result.with_z2.threshold_hu)})
         > result.with_z2.sclerotic_volume_voxels

(***************************************************************************)
(* Claims about the cyst detector                                          *)
(***************************************************************************)
CystsDetected == pc = "detected"

\* The positions within k face steps of p.
StepsAround(p, k) ==
    {q \in (p[1] - k .. p[1] + k) \X (p[2] - k .. p[2] + k)
                \X (p[3] - k .. p[3] + k) :
        Abs(q[1] - p[1]) + Abs(q[2] - p[2]) + Abs(q[3] - p[3]) <= k}

\* The near-wall zone is the cavity minus the cavity eroded k times: the
\* cavity voxels with a position outside the cavity within k face steps.
InNearWallZone(p, cavity, k) ==
    p \in cavity /\ \E q \in StepsAround(p, k) : q \notin cavity

\* The candidate set: cavity voxels with HU inside the window, outside the
\* superior 20% of the depth axis, in the near-wall zone.
CandidateSet ==
    {p \in args.cavity_mask :
        /\ RGt(HU(volume, shape, p), args.hu_range[1])
        /\ RLt(HU(volume, shape, p), args.hu_range[2])
        /\ 5 * p[1] >= shape[1] - 4
        /\ InNearWallZone(p, args.cavity_mask, args.wall_proximity_voxels)}

VoxelVolume == RMul(RMul(args.spacing[1], args.spacing[2]), args.spacing[3])

ComponentVolume(c) == RMul(R(Cardinality(c)), VoxelVolume)

\* The connected components of the candidate set.
CandidateComponents == Label(CandidateSet)

\* Those of a set of components that pass the size filter and the solidity
\* filter.
Passing(components) ==
    {c \in components :
        /\ RLe(args.min_area_mm2, ComponentVolume(c))
        /\ RLe(ComponentVolume(c), args.max_area_mm2)
        /\ RLe(Norm(1, 2), Solidity(c))}

BlobDetected == pc = "detected"

\* The blob lies in the cavity mask, below the first fifth of the depth
\* axis, and one of its voxels has a face on the wall.
BlobAdjacentToWall ==
    /\ args.blob \subseteq args.cavity_mask
    /\ \A p \in args.blob : p[1] >= OstiumCutoff(shape)
    /\ \E p \in args.blob : ~(Neighbours(p) \subseteq args.cavity_mask)

\* A record of the result lies on the blob: its centroid is within the
\* bounding box of the blob.
RecordOnBlob(rec) ==
    \A axis \in 1 .. 3 :
        /\ RLe(R(MinOf({p[axis] : p \in args.blob})), rec.centroid[axis])
        /\ RLe(rec.centroid[axis], R(MaxOf({p[axis] : p \in args.blob})))

\* C18: a ball of soft tissue with the radius of a 100 mm^3 sphere, inside
\* the cavity mask, touching the cavity wall and outside the ostium zone, is
\* accepted: the result holds a cyst record for it.
C18_BlobAccepted ==
    (BlobDetected /\ BlobAdjacentToWall) =>
        \E i \in 1 .. result.cyst_count : RecordOnBlob(result.cysts[i])

\* At 1 mm the part of the ball in the near-wall zone is reported.
C18_Accepted_1mm ==
    (BlobDetected /\ BlobAdjacentToWall /\ args.spacing[1] = R(1)) =>
        /\ result.cyst_count = 1
        /\ result.cysts[1].volume_mm3 = R(59)

\* At 0.8 mm the ball has 179 voxels and nothing is reported.
C18_Rejected_08mm ==
    /\ BlobDetected
    /\ BlobAdjacentToWall
    /\ args.spacing[1] = Norm(4, 5)
    /\ Cardinality(args.blob) = 179
    /\ result.cyst_count = 0


(***************************************************************************)
(* Claims about the region boxes, under SpecBoxes.                         *)
(***************************************************************************)
BoxesResolved == pc = "resolved"

\* On every axis the slice stays inside the axis and selects a voxel.
ValidBox(b, shp) ==
    \A axis \in 1 .. 3 :
        /\ 0 <= b[axis][1]
        /\ b[axis][1] < b[axis][2]
        /\ b[axis][2] <= shp[axis]

AllBoxesValid(boxes, shp) ==
    /\ \A r \in DOMAIN boxes.lund_mackay : ValidBox(boxes.lund_mackay[r], shp)
    /\ \A s \in DOMAIN boxes.lund_mackay_omc :
            ValidBox(boxes.lund_mackay_omc[s], shp)
    /\ \A c \in DOMAIN boxes.omc : ValidBox(boxes.omc[c], shp)
    /\ \A n \in DOMAIN boxes.manual : ValidBox(boxes.manual[n], shp)

\* C19: for every shape with each dimension >= 1, every resolved region box
\* (the ten Lund-Mackay boxes, the Lund-Mackay OMC box, the OMC corridors,
\* the manual provider's boxes) has 0 <= start < end <= dimension on each
\* axis.
C19_BoxesClamped == BoxesResolved => AllBoxesValid(result, shape)

\* The boxes of a 200 x 200 x 200 volume are all inside it.
C19_ValidAt200 ==
    (BoxesResolved /\ shape = <<200, 200, 200>>) => AllBoxesValid(result, shape)

\* A single voxel: the sphenoid box starts behind the volume and the left
\* corridor starts at a negative index.
C19_SingleVoxel ==
    /\ BoxesResolved
    /\ shape = <<1, 1, 1>>
    /\ result.lund_mackay[<<"sphenoid", "L">>][1] = <<10, 1>>
    /\ result.omc[<<1, "left">>][3] = <<-50, -5>>
    /\ result.manual["skull_base"][1] = <<0, 15>>


(***************************************************************************)
(* Claims about the region providers, under SpecProvider.                  *)
(***************************************************************************)
LookedUp == args # NotRun

\* The names a provider knows.
KnownNames(prov) ==
    IF prov.kind = "manual" THEN DOMAIN ManualStructureMap
    ELSE DOMAIN NameMapping

\* C20: a lookup of a structure name the provider does not know returns
\* None and raises nothing, for get_roi_mask and get_roi_bounds of every
\* provider.
C20_UnknownIsNone ==
    (LookedUp /\ args.structure_name \notin KnownNames(provider)) =>
        result = ReturnedNone

\* The manual provider returns None for the names it does not know.
C20_ManualUnknownIsNone ==
    (LookedUp /\ provider.kind = "manual"
        /\ args.structure_name \notin KnownNames(provider)) =>
            result = ReturnedNone

\* So does the other provider when totalsegmentator can be imported.
C20_InstalledUnknownIsNone ==
    (LookedUp /\ provider.kind = "totalsegmentator" /\ provider.installed
        /\ args.structure_name \notin KnownNames(provider)) =>
            result = ReturnedNone

\* Without the package, the lookup of an unknown name raises ImportError.
C20_UnknownRaises ==
    /\ LookedUp
    /\ provider.kind = "totalsegmentator"
    /\ ~provider.installed
    /\ args.structure_name = "inferior_turbinate"
    /\ result = Raised("ImportError")


(***************************************************************************)
(* Claims about the ranges of the outputs, under SpecStriped.              *)
(***************************************************************************)
InUnitInterval(f) == IsFinite(f) /\ RLe(R(0), f) /\ RLe(f, R(1))

OmcInRange ==
    \A side \in OmcSides :
        /\ InUnitInterval(omc[side].air_fraction)
        /\ ConfidenceInUnitInterval(omc[side].confidence)
        /\ omc[side].classification \in {"Patent", "Indeterminate", "Obstructed"}

SclerosisInRange ==
    /\ InUnitInterval(result.sclerosis.sclerotic_fraction)
    /\ result.sclerosis.sclerotic_volume_voxels >= 0

CystsInRange ==
    \A i \in 1 .. result.cysts.cyst_count :
        RLe(R(0), result.cysts.cysts[i].volume_mm3)

LundMackayInRange ==
    /\ \A g \in Groups, sd \in Sides :
            /\ InUnitInterval(RegionFraction(volume, shape, conservative, g, sd))
            /\ lund_mackay.by_region[g][sd] \in {0, 1, 2}
    /\ \A sd \in Sides : lund_mackay.omc[sd] \in {0, 1, 2}

\* C21: every bounded output stays in its range: the OMC air fraction and
\* confidence and the sclerotic fraction are in [0, 1], each regional
\* opacification fraction is in [0, 1], every regional and OMC Lund-Mackay
\* score is 0, 1 or 2, every OMC classification is Patent, Indeterminate or
\* Obstructed, and every reported volume is >= 0.
C21_OutputsInRange ==
    /\ omc # NotRun => OmcInRange
    /\ result.sclerosis # NotRun => SclerosisInRange
    /\ result.cysts # NotRun => CystsInRange
    /\ lund_mackay # NotRun => LundMackayInRange

\* All four analyzers ran, on a volume where a side has an air fraction
\* strictly between 0 and 1 and part of the shell is sclerotic.
C21_Witness ==
    /\ AllAnalyzed
    /\ \E side \in OmcSides :
            /\ RLt(R(0), omc[side].air_fraction)
            /\ RLt(omc[side].air_fraction, R(1))
    /\ RLt(R(0), result.sclerosis.sclerotic_fraction)
    /\ RLt(result.sclerosis.sclerotic_fraction, R(1))
    /\ result.sclerosis.n_clusters >= 1


(***************************************************************************)
(* Claims about failures of single measurements, under SpecDeep.           *)
(***************************************************************************)
DeepAnalysed == pc = "analyze_deep_sinuses"

ComprehensiveAnalysed == pc = "run_comprehensive_analysis"

\* The analysis returned a report with an entry, a value or None, for every
\* one of its measurement steps.
EveryStepReported(steps) ==
    /\ "results" \in DOMAIN result
    /\ DOMAIN result.results = DOMAIN steps
    /\ \A k \in DOMAIN steps : "returned" \in DOMAIN result.results[k]

\* C22: a measurement step that raises never aborts the rest of the analysis:
\* both HeadCTAnalyzer.analyze_deep_sinuses and run_comprehensive_analysis
\* return a report in which every step has its entry, the failed ones as
\* absent.
C22_FailureIsLocal ==
    /\ DeepAnalysed => EveryStepReported(DeepSteps)
    /\ ComprehensiveAnalysed => EveryStepReported(ComprehensiveSteps)

\* analyze_deep_sinuses alone keeps the rule: a step that raised is reported
\* as None and the steps after it still report.
C22_DeepFailureIsLocal ==
    DeepAnalysed =>
        /\ EveryStepReported(DeepSteps)
        /\ \A k \in DOMAIN DeepSteps :
              (Len(shape) # 3 \/ (provider.kind = "totalsegmentator"
                                    /\ ~provider.installed))
                 => result.results[k] = ReturnedNone

\* run_comprehensive_analysis of a volume with a fourth axis raised at its
\* first step and reported nothing.
C22_ComprehensiveAborted ==
    /\ ComprehensiveAnalysed
    /\ shape = SeriesShape
    /\ result = Raised("ValueError")

\* analyze_deep_sinuses lost all four measurements and still returned.
C22_DeepAllAbsent ==
    /\ DeepAnalysed
    /\ \A k \in DOMAIN DeepSteps : result.results[k] = ReturnedNone


(***************************************************************************)
(* Claims about the fall-back to the manual boxes, under SpecDeep.         *)
(***************************************************************************)
\* The provider of the analyzer has no bounds for the structure of a step
\* (asked again after the analysis, when its cache is of this volume).
BoundsAbsent(step) ==
    /\ Len(shape) = 3
    /\ get_roi_bounds(provider, volume, shape, DeepStructure(step), <<>>) = ReturnedNone

\* C25: when the provider returns absent bounds for a structure, each of the
\* four deep-sinus measurements of that structure returns what it returns
\* with the manual provider.
C25_AbsentBoundsUseManual ==
    DeepAnalysed =>
        \A k \in DOMAIN DeepSteps :
            BoundsAbsent(DeepSteps[k]) =>
                result.results[k] =
                    analyze_deep_sinuses(NewManualProvider, volume, shape,
                                         args.spacing, <<>>)[k]

\* A TotalSegmentator provider had no bounds for any of the four steps, and
\* the sphenoid was measured with air in the manual box.
C25_Witness ==
    /\ DeepAnalysed
    /\ provider.kind = "totalsegmentator"
    /\ \A k \in DOMAIN DeepSteps : BoundsAbsent(DeepSteps[k])
    /\ RGt(result.results[1].value.air_fraction, R(0))

\* A provider with bounds of its own gave another sphenoid measurement than
\* the manual box gives.
C25_OwnBoundsDiffer ==
    /\ DeepAnalysed
    /\ Len(shape) = 3
    /\ provider.kind = "totalsegmentator"
    /\ provider.installed
    /\ ~BoundsAbsent("sphenoid")
    /\ result.results[1] # analyze_deep_sinuses(NewManualProvider, volume, shape,
                                                args.spacing, <<>>)[1]


(***************************************************************************)
(* Claims about ratios with a zero denominator, under SpecUniform.         *)
(***************************************************************************)
\* The air voxels of a Lund-Mackay region of the analysed volume.
RegionAir(group, side) ==
    {p \in RegionVoxels(shape, group, side) :
        RLt(volume[p], LmAirThreshold(conservative))}

\* The shell the pipeline hands to the sclerosis detector.
PipelineShell ==
    build_sinus_wall_shell(CavityMask(volume, shape, omc_threshold), shape,
                           args.shell_thickness)

\* The cavity of the pipeline is empty or the whole volume: the dilation
\* adds no voxel to it and the shell is empty.
NoShell ==
    LET cavity == CavityMask(volume, shape, omc_threshold)
    IN  cavity = {} \/ Cardinality(cavity) = Len(volume)

\* Without a shell voxel the shell is the empty set.
NoShellIsEmptyShell == pc = "sclerosis" /\ NoShell => PipelineShell = {}

\* C23: a ratio with the denominator 0 is 0, never NaN and never an
\* exception: the opacification fraction of a region without air voxels, the
\* Lund-Mackay OMC patency of an empty box and the sclerotic fraction of an
\* empty shell are 0, and the OMC air fraction (the median of the per-slice
\* fractions) is a number.
C23_ZeroDenominatorIsZero ==
    /\ lund_mackay # NotRun =>
          /\ \A g \in Groups, sd \in Sides :
                /\ IsFinite(RegionFraction(volume, shape, conservative, g, sd))
                /\ RegionAir(g, sd) = {} =>
                      /\ RegionFraction(volume, shape, conservative, g, sd) = R(0)
                      /\ lund_mackay.by_region[g][sd] = 0
          /\ \A sd \in Sides :
                /\ IsFinite(lund_mackay.omc_patency_pct[sd])
                /\ LmOmcBox(shape, sd) = {} => lund_mackay.omc_patency_pct[sd] = R(0)
    /\ result.sclerosis # NotRun =>
          /\ IsFinite(result.sclerosis.sclerotic_fraction)
          /\ NoShell => result.sclerosis.sclerotic_fraction = R(0)
    /\ omc # NotRun =>
          \A side \in OmcSides : IsFinite(omc[side].air_fraction)

\* The analyzers ran on a volume with an empty shell, a region without air
\* voxels and an empty Lund-Mackay OMC box.
C23_Witness ==
    /\ lund_mackay # NotRun
    /\ result.sclerosis # NotRun
    /\ NoShell
    /\ \E g \in Groups, sd \in Sides :
            RegionVoxels(shape, g, sd) # {} /\ RegionAir(g, sd) = {}
    /\ \E sd \in Sides : LmOmcBox(shape, sd) = {}


(***************************************************************************)
(* Claims about what the sclerosis detector counts, under SpecSclerosis.   *)
(***************************************************************************)
\* The shell voxels with HU > reference_mean + z * reference_std.
ShellAbove(z) ==
    {p \in args.shell_mask :
        RGt(HU(volume, shape, p),
            RAdd(args.reference_bone_hu[1], RMul(z, args.reference_bone_hu[2])))}

\* The voxels a chain of face neighbours inside S joins to p.
JoinedTo(p, S) == Flood({}, {p}, S)

\* The voxels of S joined within S to at least n voxels, themselves counted.
InLargeComponent(S, n) == {p \in S : Cardinality(JoinedTo(p, S)) >= n}

\* The number of connected components the voxels of K lie in within S.
ComponentCount(K, S) == Cardinality({JoinedTo(p, S) : p \in K})

\* What the claim says the detector reports for the z threshold z.
CountsOnlyShellClusters(rec, z) ==
    LET kept == InLargeComponent(ShellAbove(z), args.min_cluster_size)
    IN  /\ rec.sclerotic_volume_voxels = Cardinality(kept)
        /\ rec.n_clusters = ComponentCount(kept, ShellAbove(z))
        /\ rec.sclerotic_fraction =
                IF args.shell_mask = {} THEN R(0)
                ELSE Norm(Cardinality(kept), Cardinality(args.shell_mask))

\* C24: compute_sclerosis_zscore counts the shell voxels above
\* reference_mean + z_threshold * reference_std that lie in a connected
\* component of at least min_cluster_size such voxels:
\* sclerotic_volume_voxels is their number, n_clusters the number of their
\* components, sclerotic_fraction their number over the shell voxel count,
\* and no voxel outside the shell is counted.
C24_CountsOnlyShellClusters ==
    pc = "detected" =>
        /\ CountsOnlyShellClusters(result.with_z1, args.z1)
        /\ CountsOnlyShellClusters(result.with_z2, args.z2)

\* A voxel above the threshold outside the shell touches a counted voxel of
\* the shell, and a smaller cluster of the shell was dropped.
C24_Witness ==
    /\ pc = "detected"
    /\ args.min_cluster_size > 1
    /\ result.with_z1.n_clusters >= 1
    /\ result.with_z1.sclerotic_volume_voxels < Cardinality(ShellAbove(args.z1))
    /\ \E p \in AllVoxels(shape) \ args.shell_mask :
            /\ RGt(HU(volume, shape, p), result.with_z1.threshold_hu)
            /\ Neighbours(p) \cap InLargeComponent(ShellAbove(args.z1),
                                                   args.min_cluster_size) # {}


(***************************************************************************)
(* Claims about the order of the thresholds, under SpecThr.                *)
(***************************************************************************)
\* The samples of the region of interest inside the histogram range.
CountedSamples ==
    LET roi == ThresholdRoi(volume, shape, sinus_mask)
    IN  {s \in DOMAIN roi : RLe(R(-1000), roi[s]) /\ RLe(roi[s], R(400))}

\* C26: for every input, an empty or all-equal histogram included,
\* air_peak < air_threshold < tissue_peak, air_peak < -600 and
\* -200 < tissue_peak < 200; the fallback values -900, 0 and -400 are never
\* returned.
C26_PeaksOrdered ==
    pc = "thresholded" =>
        /\ RLt(thresholds.air_peak, thresholds.air_threshold)
        /\ RLt(thresholds.air_threshold, thresholds.tissue_peak)
        /\ RLt(thresholds.air_peak, R(-600))
        /\ RLt(R(-200), thresholds.tissue_peak)
        /\ RLt(thresholds.tissue_peak, R(200))
        /\ thresholds.air_peak # R(-900)
        /\ thresholds.tissue_peak # R(0)
        /\ thresholds.air_threshold # R(-400)

\* The thresholds of an empty histogram: the first bin of each range.
C26_Witness ==
    /\ pc = "thresholded"
    /\ CountedSamples = {}
    /\ thresholds.air_peak = R(-995)
    /\ thresholds.air_threshold = R(-985)
    /\ thresholds.tissue_peak = R(-195)

\* Every counted sample is soft tissue of 0 HU: one bin holds them all.
C26_AllEqual ==
    /\ pc = "thresholded"
    /\ CountedSamples # {}
    /\ \A s \in CountedSamples :
            ThresholdRoi(volume, shape, sinus_mask)[s] = R(0)
    /\ thresholds.tissue_peak = R(5)


(***************************************************************************)
(* Claims about the speck filter of the OMC measurement, under SpecOmc.    *)
(***************************************************************************)
\* The air mask of a corridor of the measured volume, and what the opening
\* leaves of it.
CorridorAir(side, k) ==
    AirMask(volume, shape, Corridor(shape, OmcCandidates[k], side), omc_threshold)

OpenedAir(side, k) == BinaryOpening(CorridorAir(side, k))

\* C27: after the 2x2x2 opening every connected component of the air mask
\* of a corridor has at least 8 voxels, so dropping the components of fewer
\* than 3 voxels removes nothing: the filtered mask is the opened mask.
C27_FilterRemovesNothing ==
    MeasureRuns =>
        \A side \in OmcSides, k \in DOMAIN OmcCandidates :
            LET opened == OpenedAir(side, k)
                components == Label(opened)
            IN  /\ \A c \in components : Cardinality(c) >= 8
                /\ FilterComponents(components) = opened

\* A corridor was measured whose opened mask is a single block of 8 voxels,
\* and one where the opening removed a part of the air mask.
C27_Witness ==
    /\ MeasureRuns
    /\ \E side \in OmcSides, k \in DOMAIN OmcCandidates :
            /\ Cardinality(OpenedAir(side, k)) = 8
            /\ Evaluated(side, k) # Skipped
    /\ \E side \in OmcSides, k \in DOMAIN OmcCandidates :
            /\ OpenedAir(side, k) # {}
            /\ OpenedAir(side, k) # CorridorAir(side, k)


C28_WithCyst ==
    /\ pc = "anatomical"
    /\ result.anatomical.cysts.cyst_count >= 1


(***************************************************************************)
(* Claims about the sign of the two-point fit, under SpecCal.              *)
(***************************************************************************)
\* One voxel for each HU value of a volume.
ValueVoxels(vol) ==
    {CHOOSE p \in DOMAIN vol : vol[p] = v : v \in {vol[q] : q \in DOMAIN vol}}

\* The output orders the voxels as the input does.
OrderPreserved(in, out) ==
    \A p \in ValueVoxels(in), q \in ValueVoxels(in) :
        RLt(in[p], in[q]) => RLt(out[p], out[q])

\* C29: whenever the two-point fit is reached with the anchors of
\* detect_air_anchor and detect_bone_anchor, bone.measured_hu -
\* air.measured_hu > 0 and slope > 0, and the corrected volume orders the
\* voxels as the raw volume does.
C29_PositiveSlope ==
    \A r \in CalRuns :
        r[3].applied =>
            /\ RGt(RSub(r[3].bone_anchor.measured_hu, r[3].air_anchor.measured_hu),
                   R(0))
            /\ RGt(r[3].correction.slope, R(0))
            /\ OrderPreserved(r[1], r[2])

\* A correction with a slope below 1 was applied to a volume of at least
\* four HU values.
C29_Witness ==
    /\ pc = "calibrated"
    /\ metadata.applied
    /\ RLt(metadata.correction.slope, R(1))
    /\ Cardinality(ValueVoxels(volume)) >= 4

\* A correction with a slope above 1 was applied.
C29_SlopeAboveOne ==
    /\ pc = "calibrated"
    /\ metadata.applied
    /\ RGt(metadata.correction.slope, R(1))


(***************************************************************************)
(* Claims about the cache of the TotalSegmentator provider, under          *)
(* SpecCache.                                                              *)
(***************************************************************************)
MaskReturned == pc = "returned" /\ "mask" \in DOMAIN result

\* C30: after any sequence of get_roi_mask calls on possibly different
\* volumes, runs that raise part-way included, the cached masks and the
\* stored hash are of the same volume, and a returned mask is the one the
\* segmentation of the passed volume gives.
C30_CacheOfSameVolume ==
    /\ args.segmented_from = args.hashed_from
    /\ MaskReturned =>
          /\ args.segmented_from = SeenVolume(volume)
          /\ result.mask =
                SegmenterOutput(volume, shape)[NameMapping[args.structure_name]]

\* No run raised part-way, and a mask of another volume was returned: the
\* two volumes differ in a voxel outside the hashed sample only.
C30_SameHashOtherVolume ==
    /\ MaskReturned
    /\ args.segmented_from = args.hashed_from
    /\ args.segmented_from # SeenVolume(volume)
    /\ result.mask #
            SegmenterOutput(volume, shape)[NameMapping[args.structure_name]]

\* A run raised while loading: the cache holds masks of the new volume next
\* to the hash of the old one.
C30_PartialCache ==
    /\ "raised" \in DOMAIN result
    /\ args.hashed_from # None
    /\ args.segmented_from # args.hashed_from
    /\ DOMAIN provider.cached_masks # {}

\* With volumes that differ in the hashed sample and runs that return, the
\* mask returned is the mask of the passed volume.
C30_HashedDifference ==
    /\ MaskReturned
    /\ args.hashed_from = SeenVolume(volume)
    /\ volume = ProviderVolume(10)
    /\ result.mask = {<<0, 0, 10>>}

====
